---- MODULE Spec2Model ----
(***************************************************************************)
(* Tree-merge driver of git: the per-path three-way resolver               *)
(* (merge_strategies_one_file), the index walker (merge_entry,             *)
(* merge_one_path, merge_all) and the two drivers                          *)
(* (merge_strategies_resolve, merge_strategies_octopus) of                 *)
(* merge-strategies.c.                                                     *)
(*                                                                         *)
(* Index positions are 0-based as in the C code: istate->cache[pos] is     *)
(* ist[pos + 1].  Paths are numbered in their lexicographic order.         *)
(***************************************************************************)
EXTENDS Integers, Sequences, FiniteSets, TLC

\* ------------------------------------------------------------------ bounds
NumPaths == 2
NumOids == 2
MaxBases == 2
MaxRemotes == 2

Paths == 1..NumPaths
Oids == 1..NumOids

\* ------------------------------------------------------- program constants
\* A NULL blob pointer: the blob is absent in that version.
NullOid == 0
\* modes[] of merge_entry start as 0: the mode of an absent stage.
NoMode == 0
\* 0100644, 0100755, 0120000, 0160000
REG == 33188
EXE == 33261
S_IFLNK == 40960
S_IFGITLINK == 57344

Modes == {REG, EXE, S_IFLNK, S_IFGITLINK}
Stages == 0..3

\* Contents the line-merge engine can produce, and what a short write leaves.
CleanBlob == NumOids + 1
ConflictBlob == NumOids + 2
PartialBlob == NumOids + 3

\* ------------------------------------------------------------ cache entries
CacheEntry(path, stage, oid, mode) ==
  [name |-> path, stage |-> stage, oid |-> oid, mode |-> mode]

ce_stage(ce) == ce.stage

\* Order of the index: by name, then by stage.
CeBefore(a, b) ==
  \/ a.name < b.name
  \/ a.name = b.name /\ a.stage < b.stage

IsSortedIndex(ist) ==
  \A k \in 1..(Len(ist) - 1) : CeBefore(ist[k], ist[k + 1])

\* At rest a path has either one stage-0 entry or entries of stages 1..3.
StagesExclusive(ist) ==
  \A k, l \in 1..Len(ist) :
    (ist[k].name = ist[l].name /\ ist[k].stage = 0) => k = l

WellFormedIndex(ist) == IsSortedIndex(ist) /\ StagesExclusive(ist)

EntriesOf(ist, path) == SelectSeq(ist, LAMBDA e : e.name = path)

StagesOf(ist, path) == {ist[k].stage : k \in {l \in 1..Len(ist) : ist[l].name = path}}

HasUnmerged(ist) == \E k \in 1..Len(ist) : ist[k].stage # 0

PathsOf(ist) == {ist[k].name : k \in 1..Len(ist)}

\* Every path of the index has exactly one entry, at stage 0.
AllMerged(ist) ==
  \A p \in PathsOf(ist) :
    /\ Len(EntriesOf(ist, p)) = 1
    /\ StagesOf(ist, p) = {0}

cache_nr(ist) == Len(ist)

\* ------------------------------------------------------------- working tree
NoFile == [exists |-> FALSE, mode |-> NoMode, content |-> NullOid]
\* Mutant: the file is created with the default permissions whatever the mode.
WtFile_default_mode(mode, content) == [exists |-> TRUE, mode |-> REG, content |-> content]

WtFile(mode, content) == [exists |-> TRUE, mode |-> mode, content |-> content]

\* Mutant: no file is ever seen in the working tree.
file_exists_never(w, path) == FALSE

file_exists(w, path) == w[path].exists

remove_path(w, path) == [w EXCEPT ![path] = NoFile]

\* ------------------------------------------------- index primitives (cache.h)
\* Position of the stage-0 entry of path, or -1 - (where it would go).
index_name_pos(ist, path) ==
  LET lower == Cardinality({k \in 1..Len(ist) : ist[k].name < path})
  IN IF \E k \in 1..Len(ist) : ist[k].name = path /\ ist[k].stage = 0
     THEN lower
     ELSE -lower - 1

\* Removes every entry of path, whatever its stage.
remove_file_from_index(ist, path) == SelectSeq(ist, LAMBDA e : e.name # path)

\* ADD_CACHE_OK_TO_ADD | ADD_CACHE_OK_TO_REPLACE with a stage-0 entry: the
\* entry replaces every entry of its name and goes to its sorted place.
add_index_entry(ist, ce) ==
  LET rest == SelectSeq(ist, LAMBDA e : e.name # ce.name)
  IN SelectSeq(rest, LAMBDA e : CeBefore(e, ce)) \o <<ce>> \o
     SelectSeq(rest, LAMBDA e : CeBefore(ce, e))

\* Canonical index mode of a raw mode.
create_ce_mode(mode) ==
  IF mode = S_IFLNK THEN S_IFLNK
  ELSE IF mode = S_IFGITLINK THEN S_IFGITLINK
  ELSE IF mode = EXE THEN EXE ELSE REG

\* Permission bits open() keeps of a mode (the file type bits are ignored),
\* read back by lstat as the index mode of a regular file.
ce_mode_from_stat(mode) == IF mode = EXE THEN EXE ELSE REG

\* The entry found for path by name: the stage-2 entry of an unmerged path
\* ("locate the current stage-2 cache entry"), else the entry of the name.
index_file_exists(ist, path) ==
  LET ents == EntriesOf(ist, path)
      ours == SelectSeq(ents, LAMBDA e : ce_stage(e) = 2)
  IN IF Len(ents) = 0 THEN CacheEntry(path, 0, NullOid, NoMode)
     ELSE IF Len(ours) > 0 THEN ours[1] ELSE ents[1]

\* ------------------------------------------------------- environment choices
\* ll    : status of ll_merge (< 0 internal failure, 0 clean, > 0 conflicts)
\* io    : which I/O step fails, if any
\* ub    : what an out-of-bounds read of istate->cache[] yields
\* exit  : exit status of the child of merge_program_cb
Envs ==
  [ll : {-1, 0, 1}, io : {"ok", "open", "write", "checkout", "add"},
   ub : {"nomatch", "crash"}, exit : {0, 1}]

\* Result of a path operation.
\* msgs: progress lines on stdout; errs: error lines on stderr; fatal: BUG/die.
Result(ret, ist, w, msgs, errs, fatal) ==
  [ret |-> ret, index |-> ist, wt |-> w, msgs |-> msgs, errs |-> errs, fatal |-> fatal]

\* ------------------------------------------------------------- path merger
\* Mutant: success is reported but no entry is added.
add_to_index_cacheinfo_skipped(ist, mode, oid, path) == [ret |-> 0, index |-> ist]

add_to_index_cacheinfo(ist, mode, oid, path) ==
  \* verify_path holds of every path of the model; OK_TO_ADD | OK_TO_REPLACE
  \* makes add_index_entry succeed.
  [ret |-> 0,
   index |-> add_index_entry(ist, CacheEntry(path, 0, oid, create_ce_mode(mode)))]

checkout_from_index(ist, w, path, env) ==
  LET ce == index_file_exists(ist, path)
  IN IF env.io = "checkout"
     THEN [ret |-> -1, wt |-> w, errs |-> <<"cannot checkout file">>]
     ELSE [ret |-> 0, wt |-> [w EXCEPT ![path] = WtFile(ce.mode, ce.oid)], errs |-> <<>>]

\* Mutant: the merged file is not added to the index.
add_file_to_index_skipped(ist, w, path) == ist

\* add_file_to_index(istate, path, 0): stage-0 entry made from the file.
add_file_to_index(ist, w, path) ==
  add_index_entry(ist,
    CacheEntry(path, 0, w[path].content, ce_mode_from_stat(w[path].mode)))

\* Mutant: the index entry is removed before the permissions are compared.
merge_one_file_deleted_remove_first(ist, w, orig_blob, our_blob, their_blob, path, orig_mode, our_mode, their_mode) ==
  IF \/ (our_blob # NullOid /\ orig_mode # our_mode)
     \/ (their_blob # NullOid /\ orig_mode # their_mode)
  THEN Result(-1, remove_file_from_index(ist, path), w, <<>>,
              <<"deleted but permissions changed">>, "")
  ELSE Result(0, remove_file_from_index(ist, path),
              IF our_blob # NullOid /\ file_exists(w, path)
              THEN remove_path(w, path) ELSE w,
              IF our_blob # NullOid THEN <<"Removing">> ELSE <<>>,
              <<>>, "")

\* Mutant: the working-tree file is removed whichever side deleted the path.
merge_one_file_deleted_always_unlink(ist, w, orig_blob, our_blob, their_blob, path, orig_mode, our_mode, their_mode) ==
  IF \/ (our_blob # NullOid /\ orig_mode # our_mode)
     \/ (their_blob # NullOid /\ orig_mode # their_mode)
  THEN Result(-1, ist, w, <<>>, <<"deleted but permissions changed">>, "")
  ELSE Result(0, remove_file_from_index(ist, path),
              IF file_exists(w, path) THEN remove_path(w, path) ELSE w,
              IF our_blob # NullOid THEN <<"Removing">> ELSE <<>>,
              <<>>, "")

merge_one_file_deleted(ist, w, orig_blob, our_blob, their_blob, path, orig_mode, our_mode, their_mode) ==
  IF \/ (our_blob # NullOid /\ orig_mode # our_mode)
     \/ (their_blob # NullOid /\ orig_mode # their_mode)
  THEN Result(-1, ist, w, <<>>, <<"deleted but permissions changed">>, "")
  ELSE Result(0, remove_file_from_index(ist, path),
              IF our_blob # NullOid /\ file_exists(w, path)
              THEN remove_path(w, path) ELSE w,
              IF our_blob # NullOid THEN <<"Removing">> ELSE <<>>,
              <<>>, "")

\* The bytes ll_merge returns for a status.
ll_merge(status) == IF status = 0 THEN CleanBlob ELSE ConflictBlob

\* Mutant: "Auto-merging" is printed whether or not there is an ancestor.
do_merge_one_file_blobs_announces_twice(ist, w, orig_blob, our_blob, their_blob, path, orig_mode, our_mode, their_mode, env) ==
    LET msgs == IF orig_blob # NullOid THEN <<"Auto-merging">>
                ELSE <<"Auto-merging", "Added in both, but differently">>
        ret == env.ll
        ce == index_file_exists(ist, path)
        unlinked == remove_path(w, path)
        short == [w EXCEPT ![path] = WtFile(ce.mode, PartialBlob)]
        written == [w EXCEPT ![path] = WtFile(ce.mode, ll_merge(ret))]
        conflict == IF ret # 0 \/ orig_blob = NullOid
                    THEN <<"content conflict">> ELSE <<>>
    IN IF ret < 0
       THEN Result(-1, ist, w, msgs, <<"Failed to execute internal merge">>, "")
       ELSE IF Len(EntriesOf(ist, path)) = 0
       THEN Result(-1, ist, w, msgs, <<>>, "BUG")
       ELSE IF env.io = "open"
       THEN Result(-1, ist, unlinked, msgs, <<"failed to open file">>, "")
       ELSE IF env.io = "write"
       THEN Result(-1, ist, short, msgs, <<"failed to write">>, "")
       ELSE IF our_mode # their_mode
       THEN Result(-1, ist, written, msgs, conflict \o <<"permission conflict">>, "")
       ELSE IF conflict # <<>>
       THEN Result(-1, ist, written, msgs, conflict, "")
       ELSE IF env.io = "add"
       THEN Result(-1, ist, written, msgs, <<"unable to index file">>, "")
       ELSE Result(0, add_file_to_index(ist, written, path), written, msgs, <<>>, "")

\* do_merge_one_file after its checks of the modes: read_mmblob, ll_merge,
\* the working-tree file, the conflicts, add_file_to_index.
do_merge_one_file_blobs(ist, w, orig_blob, our_blob, their_blob, path, orig_mode, our_mode, their_mode, env) ==
    LET msgs == IF orig_blob # NullOid THEN <<"Auto-merging">>
                ELSE <<"Added in both, but differently">>
        ret == env.ll
        ce == index_file_exists(ist, path)
        unlinked == remove_path(w, path)
        short == [w EXCEPT ![path] = WtFile(ce.mode, PartialBlob)]
        written == [w EXCEPT ![path] = WtFile(ce.mode, ll_merge(ret))]
        conflict == IF ret # 0 \/ orig_blob = NullOid
                    THEN <<"content conflict">> ELSE <<>>
    IN IF ret < 0
       THEN Result(-1, ist, w, msgs, <<"Failed to execute internal merge">>, "")
       ELSE IF Len(EntriesOf(ist, path)) = 0
       THEN Result(-1, ist, w, msgs, <<>>, "BUG")
       ELSE IF env.io = "open"
       THEN Result(-1, ist, unlinked, msgs, <<"failed to open file">>, "")
       ELSE IF env.io = "write"
       THEN Result(-1, ist, short, msgs, <<"failed to write">>, "")
       ELSE IF our_mode # their_mode
       THEN Result(-1, ist, written, msgs, conflict \o <<"permission conflict">>, "")
       ELSE IF conflict # <<>>
       THEN Result(-1, ist, written, msgs, conflict, "")
       ELSE IF env.io = "add"
       THEN Result(-1, ist, written, msgs, <<"unable to index file">>, "")
       ELSE Result(0, add_file_to_index(ist, written, path), written, msgs, <<>>, "")

\* Mutant: the modes are not looked at before the blobs are merged.
do_merge_one_file_unchecked(ist, w, orig_blob, our_blob, their_blob, path, orig_mode, our_mode, their_mode, env) ==
  do_merge_one_file_blobs(ist, w, orig_blob, our_blob, their_blob, path,
                          orig_mode, our_mode, their_mode, env)

do_merge_one_file(ist, w, orig_blob, our_blob, their_blob, path, orig_mode, our_mode, their_mode, env) ==
  IF our_mode = S_IFLNK \/ their_mode = S_IFLNK
  THEN Result(-1, ist, w, <<>>, <<"Not merging symbolic link changes">>, "")
  ELSE IF our_mode = S_IFGITLINK \/ their_mode = S_IFGITLINK
  THEN Result(-1, ist, w, <<>>, <<"Not merging conflicting submodule changes">>, "")
  ELSE do_merge_one_file_blobs(ist, w, orig_blob, our_blob, their_blob, path,
                               orig_mode, our_mode, their_mode, env)

\* Mutant: a path present on one side only is sent to the content merge.
merge_strategies_one_file_either_side(ist, w, orig_blob, our_blob, their_blob, path, orig_mode, our_mode, their_mode, env) ==
  IF /\ orig_blob # NullOid
     /\ \/ (their_blob = NullOid /\ our_blob # NullOid /\ orig_blob = our_blob)
        \/ (our_blob = NullOid /\ their_blob # NullOid /\ orig_blob = their_blob)
  THEN merge_one_file_deleted(ist, w, orig_blob, our_blob, their_blob, path,
                              orig_mode, our_mode, their_mode)
  ELSE IF orig_blob = NullOid /\ our_blob # NullOid /\ their_blob = NullOid
  THEN Result(0, add_to_index_cacheinfo(ist, our_mode, our_blob, path).index,
              w, <<>>, <<>>, "")
  ELSE IF orig_blob = NullOid /\ our_blob = NullOid /\ their_blob # NullOid
  THEN IF file_exists(w, path)
       THEN Result(-1, ist, w, <<"Adding">>, <<"untracked is overwritten by the merge">>, "")
       ELSE LET added == add_to_index_cacheinfo(ist, their_mode, their_blob, path).index
                co == checkout_from_index(added, w, path, env)
            IN Result(co.ret, added, co.wt, <<"Adding">>, co.errs, "")
  ELSE IF /\ orig_blob = NullOid /\ our_blob # NullOid /\ their_blob # NullOid
          /\ our_blob = their_blob
  THEN IF our_mode # their_mode
       THEN Result(-1, ist, w, <<>>, <<"added identically but permissions conflict">>, "")
       ELSE LET added == add_to_index_cacheinfo(ist, our_mode, our_blob, path).index
                co == checkout_from_index(added, w, path, env)
            IN Result(co.ret, added, co.wt, <<"Adding">>, co.errs, "")
  ELSE IF our_blob # NullOid \/ their_blob # NullOid
  THEN do_merge_one_file(ist, w, orig_blob, our_blob, their_blob, path,
                         orig_mode, our_mode, their_mode, env)
  ELSE Result(-1, ist, w, <<>>, <<"Not handling case">>, "")

merge_strategies_one_file(ist, w, orig_blob, our_blob, their_blob, path, orig_mode, our_mode, their_mode, env) ==
  IF /\ orig_blob # NullOid
     /\ \/ (their_blob = NullOid /\ our_blob # NullOid /\ orig_blob = our_blob)
        \/ (our_blob = NullOid /\ their_blob # NullOid /\ orig_blob = their_blob)
  THEN merge_one_file_deleted(ist, w, orig_blob, our_blob, their_blob, path,
                              orig_mode, our_mode, their_mode)
  ELSE IF orig_blob = NullOid /\ our_blob # NullOid /\ their_blob = NullOid
  THEN Result(0, add_to_index_cacheinfo(ist, our_mode, our_blob, path).index,
              w, <<>>, <<>>, "")
  ELSE IF orig_blob = NullOid /\ our_blob = NullOid /\ their_blob # NullOid
  THEN IF file_exists(w, path)
       THEN Result(-1, ist, w, <<"Adding">>, <<"untracked is overwritten by the merge">>, "")
       ELSE LET added == add_to_index_cacheinfo(ist, their_mode, their_blob, path).index
                co == checkout_from_index(added, w, path, env)
            IN Result(co.ret, added, co.wt, <<"Adding">>, co.errs, "")
  ELSE IF /\ orig_blob = NullOid /\ our_blob # NullOid /\ their_blob # NullOid
          /\ our_blob = their_blob
  THEN IF our_mode # their_mode
       THEN Result(-1, ist, w, <<>>, <<"added identically but permissions conflict">>, "")
       ELSE LET added == add_to_index_cacheinfo(ist, our_mode, our_blob, path).index
                co == checkout_from_index(added, w, path, env)
            IN Result(co.ret, added, co.wt, <<"Adding">>, co.errs, "")
  ELSE IF our_blob # NullOid /\ their_blob # NullOid
  THEN do_merge_one_file(ist, w, orig_blob, our_blob, their_blob, path,
                         orig_mode, our_mode, their_mode, env)
  ELSE Result(-1, ist, w, <<>>, <<"Not handling case">>, "")

merge_one_file_cb(ist, w, orig_blob, our_blob, their_blob, path, orig_mode, our_mode, their_mode, env) ==
  merge_strategies_one_file(ist, w, orig_blob, our_blob, their_blob, path,
                            orig_mode, our_mode, their_mode, env)

\* The child gets the ids and modes as arguments and updates the index by
\* its own commands: the callback touches neither the in-memory index nor
\* the working tree, and returns the child's exit status.
merge_program_cb(ist, w, orig_blob, our_blob, their_blob, path, orig_mode, our_mode, their_mode, env) ==
  Result(env.exit, ist, w, <<>>, <<>>, "")

\* A merge_cb: cb names the callback passed as function pointer.
call_cb(cb, ist, w, orig_blob, our_blob, their_blob, path, orig_mode, our_mode, their_mode, env) ==
  IF cb = "merge_one_file_cb"
  THEN merge_one_file_cb(ist, w, orig_blob, our_blob, their_blob, path,
                         orig_mode, our_mode, their_mode, env)
  ELSE merge_program_cb(ist, w, orig_blob, our_blob, their_blob, path,
                        orig_mode, our_mode, their_mode, env)

\* ------------------------------------------------------------- index walker
\* Number of consecutive entries named path from position pos on.
RECURSIVE RunLength(_, _, _)
RunLength(ist, pos, path) ==
  IF pos < cache_nr(ist) /\ ist[pos + 1].name = path
  THEN 1 + RunLength(ist, pos + 1, path)
  ELSE 0

\* oids[stage - 1] / modes[stage - 1] after the do-while loop: the last
\* entry of a stage wins, a stage with no entry keeps NULL / 0.
SlotOid(ist, pos, found, slot) ==
  LET hits == {k \in pos..(pos + found - 1) : ist[k + 1].stage - 1 = slot}
  IN IF hits = {} THEN NullOid
     ELSE ist[(CHOOSE k \in hits : \A l \in hits : l <= k) + 1].oid

SlotMode(ist, pos, found, slot) ==
  LET hits == {k \in pos..(pos + found - 1) : ist[k + 1].stage - 1 = slot}
  IN IF hits = {} THEN NoMode
     ELSE ist[(CHOOSE k \in hits : \A l \in hits : l <= k) + 1].mode

\* ret: found > 0, -1 (not in the cache) or -2 (the callback failed).
\* oob: istate->cache[] was read at or beyond cache_nr.
\* badslot: an entry of stage 0 was collected (oids[-1] would be written).
merge_entry(ist, w, quiet, pos, path, cb, env) ==
  LET oob == pos >= cache_nr(ist)
      found == RunLength(ist, pos, path)
      oids == [slot \in 0..2 |-> SlotOid(ist, pos, found, slot)]
      modes == [slot \in 0..2 |-> SlotMode(ist, pos, found, slot)]
      badslot == \E k \in pos..(pos + found - 1) : ist[k + 1].stage = 0
      r == call_cb(cb, ist, w, oids[0], oids[1], oids[2], path,
                   modes[0], modes[1], modes[2], env)
      base == [found |-> found, oids |-> oids, modes |-> modes, oob |-> oob,
               badslot |-> badslot, called |-> found > 0]
  IN IF oob /\ env.ub = "crash"
     THEN [base EXCEPT !.called = FALSE] @@
          Result(-1, ist, w, <<>>, <<>>, "SIGSEGV")
     ELSE IF found = 0
     THEN base @@ Result(-1, ist, w, <<>>, <<"is not in the cache">>, "")
     ELSE IF r.ret # 0
     THEN base @@ Result(-2, r.index, r.wt, r.msgs,
                         IF quiet THEN r.errs ELSE r.errs \o <<"Merge program failed">>,
                         r.fatal)
     ELSE base @@ Result(found, r.index, r.wt, r.msgs, r.errs, r.fatal)

merge_one_path(ist, w, oneshot, quiet, path, cb, env) ==
  LET pos == index_name_pos(ist, path)
      e == merge_entry(ist, w, quiet, -pos - 1, path, cb, env)
  IN IF pos < 0
     THEN IF e.ret = -1 THEN e
          ELSE IF e.ret = -2 THEN [e EXCEPT !.ret = 1]
          ELSE [e EXCEPT !.ret = 0]
     ELSE [found |-> 0, oids |-> [slot \in 0..2 |-> NullOid],
           modes |-> [slot \in 0..2 |-> NoMode], oob |-> FALSE,
           badslot |-> FALSE, called |-> FALSE] @@
          Result(0, ist, w, <<>>, <<>>, "")

\* ------------------------------------------------------------------- state
VARIABLES
  index,            \* r->index: the in-memory index
  disk,             \* the index file on disk
  wt,               \* the working tree: path -> file
  lock,             \* who holds the index lock: "none", "self", "other"
  driver,           \* the entry point running
  pc,               \* its position
  ret,              \* its return value (at pc = "done")
  args,             \* its arguments
  i,                \* merge_all: the cursor
  walk,             \* merge_all: its arguments, err and return value
  last,             \* the latest dispatch of merge_entry
  oct,              \* merge_strategies_octopus: its locals
  hist              \* history: what the invocation has done so far

vars == <<index, disk, wt, lock, driver, pc, ret, args, i, walk, last, oct, hist>>

NoDispatch == [valid |-> FALSE]

NoArgs == [n |-> 0]

NoOct == [j |-> 0, non_ff_merge |-> FALSE, references |-> 0, reference_commit |-> <<>>,
          reference_tree |-> "head", noids |-> 0]

\* Mutant: the drivers ask merge_all to count the conflicts and go on.
NoWalk_oneshot == [oneshot |-> TRUE, quiet |-> FALSE, cb |-> "merge_one_file_cb", err |-> 0, ret |-> 0]

NoWalk == [oneshot |-> FALSE, quiet |-> FALSE, cb |-> "merge_one_file_cb", err |-> 0, ret |-> 0]

\* disk0: the index file at entry; unpacked / merged: the remotes (octopus)
\* or rounds for which unpack_trees / the path merger ran; updated: those
\* whose unpack_trees succeeded; conflicted: the paths whose callback
\* returned non-zero; conflictAt: the remote whose automatic merge reported
\* a conflict; leftAt: the remote whose automatic merge left unmerged
\* entries; dispatched: the paths dispatched by the running merge_all.
\* walk0: the index when merge_all started.
NoHist == [disk0 |-> <<>>, unpacked |-> {}, updated |-> {}, merged |-> {}, conflicted |-> {},
           conflictAt |-> 0, leftAt |-> 0, dispatched |-> <<>>, walk0 |-> <<>>,
           ff |-> {}, simple |-> {}]

\* What a dispatch leaves in last.
Dispatch(e, path, pos, ist, w) ==
  e @@ [valid |-> TRUE, path |-> path, pos |-> pos, preIndex |-> ist, preWt |-> w]

\* ---------------------------------------------------- inputs of the walker
BlobRefs == Oids \X Modes

\* The entries of one path: nothing, one stage-0 entry, or any non-empty
\* choice of stage-1/2/3 entries.
RECURSIVE StageEntries(_, _, _)
StageEntries(path, refs, stage) ==
  IF stage > 3 THEN {<<>>}
  ELSE LET tails == StageEntries(path, refs, stage + 1)
       IN tails \cup
          {<<CacheEntry(path, stage, b[1], b[2])>> \o t : b \in refs, t \in tails}

PathShapes(path, refs) ==
  StageEntries(path, refs, 1) \cup
  {<<CacheEntry(path, 0, b[1], b[2])>> : b \in refs}

\* The entries of a neighbouring path.
NeighbourShapes(path) ==
  {<<>>, <<CacheEntry(path, 0, 1, REG)>>,
   <<CacheEntry(path, 2, 1, REG), CacheEntry(path, 3, 1, EXE)>>}

\* Indexes in which one path (focus) has any shape and the others a
\* neighbour's shape.
RECURSIVE IndexesFrom(_, _)
IndexesFrom(path, focus) ==
  IF path > NumPaths THEN {<<>>}
  ELSE {s \o t :
          s \in (IF path = focus THEN PathShapes(path, BlobRefs)
                 ELSE NeighbourShapes(path)),
          t \in IndexesFrom(path + 1, focus)}

\* Working trees: at each path no file, or some file.
Worktrees == [Paths -> {NoFile, WtFile(REG, 1)}]

\* What the callbacks of the walker can meet.
\* An I/O step is reached only after ll_merge returned >= 0 and its failure
\* hides the status.
WalkerEnvs ==
  {e \in Envs : /\ e.exit = 0
                /\ (e.io # "ok" => e.ll = 0)}

\* The choice of ub is read only by an out-of-bounds read.
EnvRelevant(env, pos, ist) == env.ub = "crash" => pos >= cache_nr(ist)

\* -------------------------------------------- merge_one_path, called alone
\* merge_one_path(istate, 0, 0, args.path, merge_one_file_cb, r) on an index
\* in which args.path has any shape.
InitPath ==
  /\ \E focus \in Paths :
       /\ args = [n |-> 0, path |-> focus]
       /\ index \in IndexesFrom(1, focus)
       /\ wt \in {w \in Worktrees : \A p \in Paths \ {focus} : w[p] = NoFile}
  /\ disk = index
  /\ lock = "none"
  /\ driver = "merge_one_path"
  /\ pc = "p_call"
  /\ ret = 0
  /\ i = 0
  /\ walk = NoWalk
  /\ last = NoDispatch
  /\ oct = NoOct
  /\ hist = NoHist

MergeOnePath(env) ==
  /\ driver = "merge_one_path"
  /\ pc = "p_call"
  /\ LET path == args.path
         pos == index_name_pos(index, path)
     IN /\ EnvRelevant(env, -pos - 1, index)
        /\ \E r \in {merge_one_path(index, wt, FALSE, FALSE, path,
                                       "merge_one_file_cb", env)} :
              /\ index' = r.index
              /\ wt' = r.wt
              /\ ret' = r.ret
              /\ last' = Dispatch(r, path, -pos - 1, index, wt)
              /\ pc' = IF r.fatal # "" THEN "died" ELSE "done"
  /\ UNCHANGED <<disk, lock, driver, args, i, walk, oct, hist>>

NextPath == \E env \in WalkerEnvs : MergeOnePath(env)

SpecPath == InitPath /\ [][NextPath]_vars

\* ------------------------------------------------------------ merge_all
\* Mutant: the walk starts over after every path that was merged.
merge_all_step_rescans(ist, w, wk, pos, env) ==
  LET ce == ist[pos + 1]
      e == merge_entry(ist, w, wk.quiet, pos, ce.name, wk.cb, env)
      stay == [index |-> ist, wt |-> w, err |-> wk.err, entry |-> NoDispatch]
      moved == [index |-> e.index, wt |-> e.wt,
                entry |-> Dispatch(e, ce.name, pos, ist, w)]
  IN IF ~(pos < cache_nr(ist))
     THEN stay @@ [done |-> TRUE, ret |-> wk.err, i |-> pos]
     ELSE IF ce_stage(ce) = 0
     THEN stay @@ [done |-> FALSE, ret |-> 0, i |-> pos + 1]
     ELSE IF e.fatal # ""
     THEN moved @@ [done |-> TRUE, ret |-> -1, i |-> pos, err |-> wk.err]
     ELSE IF e.ret > 0
     THEN moved @@ [done |-> FALSE, ret |-> 0, i |-> 0, err |-> wk.err]
     ELSE IF e.ret = -1
     THEN moved @@ [done |-> TRUE, ret |-> -1, i |-> pos, err |-> wk.err]
     ELSE IF wk.oneshot
     THEN moved @@ [done |-> FALSE, ret |-> 0, i |-> pos + 1, err |-> wk.err + 1]
     ELSE moved @@ [done |-> TRUE, ret |-> 1, i |-> pos, err |-> wk.err]

\* One iteration of the for loop of merge_all at cursor pos (or its exit).
\* done: merge_all returns ret; entry: the dispatch made, if any.
merge_all_step(ist, w, wk, pos, env) ==
  LET ce == ist[pos + 1]
      e == merge_entry(ist, w, wk.quiet, pos, ce.name, wk.cb, env)
      stay == [index |-> ist, wt |-> w, err |-> wk.err, entry |-> NoDispatch]
      moved == [index |-> e.index, wt |-> e.wt,
                entry |-> Dispatch(e, ce.name, pos, ist, w)]
  IN IF ~(pos < cache_nr(ist))
     THEN stay @@ [done |-> TRUE, ret |-> wk.err, i |-> pos]
     ELSE IF ce_stage(ce) = 0
     THEN stay @@ [done |-> FALSE, ret |-> 0, i |-> pos + 1]
     ELSE IF e.fatal # ""
     THEN moved @@ [done |-> TRUE, ret |-> -1, i |-> pos, err |-> wk.err]
     ELSE IF e.ret > 0
     THEN moved @@ [done |-> FALSE, ret |-> 0, i |-> (pos + e.ret - 1) + 1, err |-> wk.err]
     ELSE IF e.ret = -1
     THEN moved @@ [done |-> TRUE, ret |-> -1, i |-> pos, err |-> wk.err]
     ELSE IF wk.oneshot
     THEN moved @@ [done |-> FALSE, ret |-> 0, i |-> pos + 1, err |-> wk.err + 1]
     ELSE moved @@ [done |-> TRUE, ret |-> 1, i |-> pos, err |-> wk.err]

\* ----------------------------------------------------------- collaborators
\* Blobs of the trees the drivers are given: regular files.
TreeRefs == Oids \X {REG, EXE}

\* The blob a conflicting path has in the merge base, in ours and in theirs:
\* three different blobs, ours and theirs of one mode.
StageRef(stage) ==
  IF stage = 1 THEN <<1, EXE>> ELSE IF stage = 2 THEN <<1, REG>> ELSE <<NumOids, REG>>

\* What an aggressive three-way unpack-trees leaves of a path: nothing, one
\* merged entry, or at least two stage entries no two of which agree (a
\* path deleted on both sides, deleted on one and unchanged on the other,
\* added on one side, added identically or changed on one side only is
\* resolved by unpack-trees itself).
AggressiveLeaves(shape) ==
  \/ Len(shape) = 0
  \/ shape[1].stage = 0
  \/ /\ Len(shape) >= 2
     /\ \A k, l \in 1..Len(shape) :
          k # l => <<shape[k].oid, shape[k].mode>> # <<shape[l].oid, shape[l].mode>>

\* The shapes of a path after a three-way unpack-trees.
ThreewayShapes(path, aggressive) ==
  {x \in PathShapes(path, TreeRefs) :
     /\ aggressive => AggressiveLeaves(x)
     /\ \A k \in 1..Len(x) :
          x[k].stage # 0 => <<x[k].oid, x[k].mode>> = StageRef(x[k].stage)
     /\ \A k \in 1..Len(x) : x[k].stage = 0 => x[k].mode = REG}

RECURSIVE IndexesOfShapes(_, _)
IndexesOfShapes(path, aggressive) ==
  IF path > NumPaths THEN {<<>>}
  ELSE {s \o t :
          s \in ThreewayShapes(path, aggressive),
          t \in IndexesOfShapes(path + 1, aggressive)}

ThreewayIndexes == IndexesOfShapes(1, TRUE)

RECURSIVE MergedFrom(_, _)
MergedFrom(path, refs) ==
  IF path > NumPaths THEN {<<>>}
  ELSE {s \o t :
          s \in {<<>>} \cup {<<CacheEntry(path, 0, b[1], b[2])>> : b \in refs},
          t \in MergedFrom(path + 1, refs)}

\* One-way and two-way merges leave merged entries only.
MergedIndexes == MergedFrom(1, Oids \X {REG})

\* unpack_trees rejects a path whose index entry is not head's: a path
\* left unmerged has a stage-2 entry exactly if the index had the path, and
\* that entry is the one the index had. It rejects the checkout of a path
\* over an untracked file (verify_absent); a tracked file that is missing
\* from the working tree passes (verify_uptodate).
UnpackConsistent(old, w, new) ==
  \A p \in Paths :
    /\ StagesOf(new, p) \cap {1, 2, 3} # {} =>
         IF 2 \in StagesOf(new, p)
         THEN /\ StagesOf(old, p) = {0}
              /\ \E k \in 1..Len(new) :
                   new[k] = [EntriesOf(old, p)[1] EXCEPT !.stage = 2]
         ELSE StagesOf(old, p) = {}
    /\ (StagesOf(new, p) = {0} /\ StagesOf(old, p) = {}) => ~file_exists(w, p)

\* The indexes unpack_trees can leave on success, by opts.fn and
\* opts.aggressive.
UnpackResults(ist, w, nr, aggressive) ==
  {new \in (IF nr < 3 THEN MergedIndexes
            ELSE IF aggressive THEN ThreewayIndexes ELSE IndexesOfShapes(1, FALSE)) :
     UnpackConsistent(ist, w, new)}

\* opts.fn as chosen from the number of trees.
UnpackFn(nr) ==
  IF nr = 1 THEN "oneway_merge"
  ELSE IF nr = 2 THEN "twoway_merge"
  ELSE IF nr >= 3 THEN "threeway_merge" ELSE "unset"

\* opts.head_idx as left by the driver.
HeadIdx(nr) == IF nr >= 3 THEN nr - 1 ELSE 1

\* opts.update: merged entries are checked out, paths that left the index
\* are removed, unmerged paths keep their file.
UnpackWorktree(w, old, new) ==
  [p \in Paths |->
     IF StagesOf(new, p) = {0}
     THEN WtFile(EntriesOf(new, p)[1].mode, EntriesOf(new, p)[1].oid)
     ELSE IF StagesOf(new, p) = {} /\ StagesOf(old, p) # {} THEN NoFile
     ELSE w[p]]

\* refresh_index: unmerged entries are errors.
refresh_index(ist) == IF HasUnmerged(ist) THEN 1 ELSE 0

\* write_index_as_tree: takes the index lock (dying on contention), fails
\* on an index with unmerged entries, else writes the tree and the index.
write_index_as_tree(ist, dsk, lk) ==
  IF lk = "other" THEN [ret |-> -1, disk |-> dsk, fatal |-> "die"]
  ELSE IF HasUnmerged(ist) THEN [ret |-> -2, disk |-> dsk, fatal |-> ""]
  ELSE [ret |-> 0, disk |-> ist, fatal |-> ""]

\* write_locked_index(istate, lock, COMMIT_LOCK): the lock is committed or,
\* on failure, rolled back; either way it is released.
write_locked_index(ist, dsk, fails) ==
  IF fails THEN [ret |-> -1, disk |-> dsk, lock |-> "none"]
  ELSE [ret |-> 0, disk |-> ist, lock |-> "none"]

\* Steps of a driver that can fail, and the index unpack_trees would leave.
FailAt == {"none", "parse", "unpack", "write"}

\* ------------------------------------------------------------ fast_forward
fast_forward(ist, w, dsk, lk, nr, aggressive, fenv) ==
  LET same == [index |-> ist, wt |-> w, disk |-> dsk, fatal |-> "", unpacked |-> FALSE,
               updated |-> FALSE]
      new == [index |-> fenv.result, wt |-> UnpackWorktree(w, ist, fenv.result),
              fatal |-> "", unpacked |-> TRUE, updated |-> TRUE]
      wr == write_locked_index(fenv.result, dsk, fenv.fail = "write")
  IN IF refresh_index(ist) # 0
     THEN same @@ [ret |-> -1, lock |-> lk]
     ELSE IF lk = "other"
     THEN [same EXCEPT !.fatal = "die"] @@ [ret |-> -1, lock |-> lk]
     ELSE IF fenv.fail = "parse"
     THEN same @@ [ret |-> -1, lock |-> "self"]
     ELSE IF fenv.fail = "unpack"
     THEN [same EXCEPT !.unpacked = TRUE] @@ [ret |-> -1, lock |-> "self"]
     ELSE new @@ [ret |-> wr.ret, disk |-> wr.disk, lock |-> wr.lock]

\* -------------------------------------------------------------- write_tree
\* *reference_tree is set only on success.
write_tree(ist, dsk, lk, reference_tree) ==
  LET t == write_index_as_tree(ist, dsk, lk)
  IN t @@ [tree |-> IF t.ret = 0 THEN "index" ELSE reference_tree]

\* ------------------------------------------------------------- the drivers
MaxCommon == 2

\* Commits: 0 is head, j the j-th remote, MaxRemotes + 1 some older commit.
Commits == 0..(MaxRemotes + 1)
\* What get_merge_bases_many can return: a list of distinct commits.
CommonLists ==
  {c \in UNION {[1..n -> Commits] : n \in 0..MaxCommon} :
     \A k, l \in 1..Len(c) : k # l => c[k] # c[l]}

\* The index and the index file at entry: a clean index.
EntryIndexes == MergedFrom(1, {<<1, REG>>})

DriverEnvs == {e \in WalkerEnvs : e.ub = "nomatch"}
DefaultEnv == [ll |-> 0, io |-> "ok", ub |-> "nomatch", exit |-> 0]

Init ==
  /\ index \in EntryIndexes
  /\ disk = index
  /\ wt \in Worktrees
  /\ lock \in {"none", "other"}
  /\ driver = "none"
  /\ pc = "start"
  /\ ret = 0
  /\ args = NoArgs
  /\ i = 0
  /\ walk = NoWalk
  /\ last = NoDispatch
  /\ oct = NoOct
  /\ hist = NoHist

\* die(): the process exits; its own lock file is removed at exit.
Die ==
  /\ pc' = "died"
  /\ lock' = IF lock = "self" THEN "none" ELSE lock

Running == pc \notin {"start", "done", "died"}

\* Another process takes or drops the index lock.
OtherLock ==
  /\ Running
  /\ lock = "none"
  /\ lock' = "other"
  /\ UNCHANGED <<index, disk, wt, driver, pc, ret, args, i, walk, last, oct, hist>>

OtherUnlock ==
  /\ Running
  /\ lock = "other"
  /\ lock' = "none"
  /\ UNCHANGED <<index, disk, wt, driver, pc, ret, args, i, walk, last, oct, hist>>

\* ------------------------------------------------- merge_strategies_resolve
\* The tree descriptors t[0..i-1] in the order add_tree fills them: the
\* bases, then head if head_arg is given, then the remote if there is one.
ResolveTrees(nbases, head_arg, remote) ==
  [k \in 1..nbases |-> "base"]
    \o (IF head_arg THEN <<"head">> ELSE <<>>)
    \o (IF remote THEN <<"remote">> ELSE <<>>)

\* opts.fn and opts.head_idx for nr trees. head_idx counts the sources of
\* unpack_trees, of which source 0 is the index entry and source k is the
\* entry of t[k - 1], which is the k-th tree of ResolveTrees.
ResolveOpts(nr) ==
  [fn |-> IF nr = 1 THEN "oneway_merge"
          ELSE IF nr = 2 THEN "twoway_merge"
          ELSE IF nr >= 3 THEN "threeway_merge"
          ELSE "NULL",
   head_idx |-> IF nr >= 3 THEN nr - 1 ELSE 1]

\* Entry, repo_hold_locked_index(LOCK_DIE_ON_ERROR), refresh_index; t and
\* opts are what the arguments make of them by the time unpack_trees runs.
ResolveEntry(nbases, head_arg, remote) ==
  /\ pc = "start"
  /\ nbases + (IF head_arg THEN 1 ELSE 0) + (IF remote THEN 1 ELSE 0) >= 1
  /\ driver' = "resolve"
  /\ args' = [n |-> Len(ResolveTrees(nbases, head_arg, remote)),
              bases |-> nbases, head_arg |-> head_arg, remote |-> remote,
              t |-> ResolveTrees(nbases, head_arg, remote),
              opts |-> ResolveOpts(Len(ResolveTrees(nbases, head_arg, remote)))]
  /\ hist' = [hist EXCEPT !.disk0 = disk]
  /\ IF lock = "other"
     THEN Die
     ELSE pc' = "r_unpack" /\ lock' = "self"
  /\ UNCHANGED <<index, disk, wt, ret, i, walk, last, oct>>

\* rollback_lock_file: the lock file is removed, the index file stays.
rollback_lock_file(dsk) == [disk |-> dsk, lock |-> "none"]

\* add_tree for every tree, unpack_trees; on failure: out, where the lock
\* is released with outcome out.
ResolveUnpackOut(fail, result, out) ==
  /\ driver = "resolve" /\ pc = "r_unpack"
  /\ fail \in {"none", "parse", "unpack"}
  /\ IF fail = "none"
     THEN /\ index' = result
          /\ wt' = UnpackWorktree(wt, index, result)
          /\ pc' = "r_write"
          /\ UNCHANGED <<lock, ret, disk>>
     ELSE /\ disk' = out.disk
          /\ lock' = out.lock
          /\ ret' = 2
          /\ pc' = "done"
          /\ UNCHANGED <<index, wt>>
  /\ hist' = [hist EXCEPT !.unpacked = IF fail = "parse" THEN @ ELSE @ \cup {1},
                          !.updated = IF fail = "none" THEN @ \cup {1} ELSE @]
  /\ UNCHANGED <<driver, args, i, walk, last, oct>>

\* The lock file, still empty, is committed instead of rolled back.
commit_empty_lock_file(dsk) == [disk |-> <<>>, lock |-> "none"]

ResolveUnpackCommitsOnFailure(fail, result) ==
  ResolveUnpackOut(fail, result, commit_empty_lock_file(disk))

ResolveUnpack(fail, result) == ResolveUnpackOut(fail, result, rollback_lock_file(disk))

\* Mutant: the index file is written but the lock is kept.
ResolveWrite_keeps_lock(fails) ==
  /\ driver = "resolve" /\ pc = "r_write"
  /\ disk' = write_locked_index(index, disk, fails).disk
  /\ pc' = "r_tree"
  /\ UNCHANGED <<index, wt, lock, driver, ret, args, i, walk, last, oct, hist>>

\* "Trying simple merge.", write_locked_index (its result is not read).
ResolveWrite(fails) ==
  /\ driver = "resolve" /\ pc = "r_write"
  /\ LET wr == write_locked_index(index, disk, fails)
     IN disk' = wr.disk /\ lock' = wr.lock
  /\ pc' = "r_tree"
  /\ UNCHANGED <<index, wt, driver, ret, args, i, walk, last, oct, hist>>

\* write_index_as_tree(WRITE_TREE_SILENT): success returns 0.
ResolveTree ==
  /\ driver = "resolve" /\ pc = "r_tree"
  /\ LET t == write_index_as_tree(index, disk, lock)
     IN IF t.fatal # ""
        THEN Die /\ UNCHANGED <<disk, ret>>
        ELSE IF t.ret = 0
        THEN disk' = t.disk /\ ret' = 0 /\ pc' = "done" /\ UNCHANGED lock
        ELSE pc' = "r_relock" /\ UNCHANGED <<disk, ret, lock>>
  /\ UNCHANGED <<index, wt, driver, args, i, walk, last, oct, hist>>

\* "Simple merge failed, trying Automatic merge.", the lock again, and the
\* call of merge_all(r->index, 0, 0, merge_one_file_cb, r).
ResolveRelock ==
  /\ driver = "resolve" /\ pc = "r_relock"
  /\ IF lock = "other"
     THEN Die /\ UNCHANGED <<i, walk, hist>>
     ELSE /\ lock' = "self"
          /\ pc' = "walk"
          /\ i' = 0
          /\ walk' = NoWalk
          /\ hist' = [hist EXCEPT !.walk0 = index, !.dispatched = <<>>]
  /\ UNCHANGED <<index, disk, wt, driver, ret, args, last, oct>>

\* One iteration of merge_all inside a driver.
MergeAllStep(env) ==
  /\ driver \in {"resolve", "octopus"}
  /\ pc = "walk"
  /\ (~(i < cache_nr(index) /\ ce_stage(index[i + 1]) # 0)) => env = DefaultEnv
  /\ \E step \in {merge_all_step(index, wt, walk, i, env)},
        round \in {IF driver = "octopus" THEN oct.j ELSE 1} :
        /\ index' = step.index
        /\ wt' = step.wt
        /\ i' = step.i
        /\ walk' = [walk EXCEPT !.err = step.err, !.ret = step.ret]
        /\ last' = IF step.entry.valid THEN step.entry ELSE last
        /\ hist' = IF step.entry.valid
                   THEN [hist EXCEPT
                           !.dispatched = Append(@, step.entry.path),
                           !.merged = IF step.entry.called THEN @ \cup {round} ELSE @,
                           !.conflicted = IF step.entry.ret = -2
                                          THEN @ \cup {step.entry.path} ELSE @]
                   ELSE hist
        /\ IF step.entry.valid /\ step.entry.fatal # ""
           THEN Die
           ELSE /\ pc' = IF ~step.done THEN "walk"
                         ELSE IF driver = "resolve" THEN "r_commit" ELSE "o_commit"
                /\ UNCHANGED lock
  /\ UNCHANGED <<disk, driver, ret, args, oct>>

\* write_locked_index and return !!ret.
ResolveCommit(fails) ==
  /\ driver = "resolve" /\ pc = "r_commit"
  /\ LET wr == write_locked_index(index, disk, fails)
     IN disk' = wr.disk /\ lock' = wr.lock
  /\ ret' = IF walk.ret # 0 THEN 1 ELSE 0
  /\ pc' = "done"
  /\ UNCHANGED <<index, wt, driver, args, i, walk, last, oct, hist>>

\* ------------------------------------------------- merge_strategies_octopus
\* The j-th remote is commit j.
CurrentRemote == oct.j

Min(a, b) == IF a < b THEN a ELSE b

\* can_ff after the loop over common and reference_commit.
CanFF(common, references, reference_commit) ==
  \A k \in 1..Min(Len(common), references) : common[k] = reference_commit[k]

\* Mutant: the loop does not move on to the next remote.
NextRemote_same_remote(o, tree) == [o EXCEPT !.reference_tree = tree, !.noids = 0]

\* Mutant: the tree written is not stored in reference_tree.
NextRemote_keeps_tree(o, tree) ==
  [o EXCEPT !.reference_commit = SubSeq(@, 1, o.references) \o <<o.j>>,
            !.references = @ + 1,
            !.noids = 0,
            !.j = @ + 1]

\* reference_commit[references++] = c, and the next remote.
NextRemote(o, tree) ==
  [o EXCEPT !.reference_commit = SubSeq(@, 1, o.references) \o <<o.j>>,
            !.references = @ + 1,
            !.reference_tree = tree,
            !.noids = 0,
            !.j = @ + 1]

\* Mutant: the loop is entered whatever repo_index_has_changes says.
OctopusEntry_unchecked(nremotes, changes) ==
  /\ pc = "start"
  /\ driver' = "octopus"
  /\ args' = [n |-> nremotes, changes |-> changes]
  /\ hist' = [hist EXCEPT !.disk0 = disk]
  /\ oct' = [j |-> 1, non_ff_merge |-> FALSE, references |-> 1,
             reference_commit |-> <<0>>, reference_tree |-> "head",
             noids |-> 0]
  /\ ret' = 0 /\ pc' = "o_head"
  /\ UNCHANGED <<index, disk, wt, lock, i, walk, last>>

\* Mutant: head is entered twice in reference_commit.
OctopusEntry_counts_head_twice(nremotes, changes) ==
  /\ pc = "start"
  /\ driver' = "octopus"
  /\ args' = [n |-> nremotes, changes |-> changes]
  /\ hist' = [hist EXCEPT !.disk0 = disk]
  /\ oct' = [j |-> 1, non_ff_merge |-> FALSE, references |-> 2,
             reference_commit |-> <<0, 0>>, reference_tree |-> "head",
             noids |-> 0]
  /\ IF changes
     THEN ret' = 2 /\ pc' = "done"
     ELSE ret' = 0 /\ pc' = "o_head"
  /\ UNCHANGED <<index, disk, wt, lock, i, walk, last>>

\* Entry: the reference commit is head; repo_index_has_changes.
OctopusEntry(nremotes, changes) ==
  /\ pc = "start"
  /\ driver' = "octopus"
  /\ args' = [n |-> nremotes, changes |-> changes]
  /\ hist' = [hist EXCEPT !.disk0 = disk]
  /\ oct' = [j |-> 1, non_ff_merge |-> FALSE, references |-> 1,
             reference_commit |-> <<0>>, reference_tree |-> "head",
             noids |-> 0]
  /\ IF changes
     THEN ret' = 2 /\ pc' = "done"
     ELSE ret' = 0 /\ pc' = "o_head"
  /\ UNCHANGED <<index, disk, wt, lock, i, walk, last>>

\* Mutant: a remote that is already merged is counted as a parent.
OctopusHead_counts_skipped(common) ==
  /\ driver = "octopus" /\ pc = "o_head"
  /\ IF oct.j > args.n
     THEN pc' = "done" /\ UNCHANGED <<ret, oct, lock, hist>>
     ELSE IF ret # 0
     THEN ret' = 2 /\ pc' = "done" /\ UNCHANGED <<oct, lock, hist>>
     ELSE IF common = <<>>
     THEN Die /\ UNCHANGED <<ret, oct, hist>>
     ELSE IF \E k \in 1..Len(common) : common[k] = CurrentRemote
     THEN oct' = NextRemote(oct, oct.reference_tree) /\ UNCHANGED <<pc, ret, lock, hist>>
     ELSE IF ~oct.non_ff_merge /\ CanFF(common, oct.references, oct.reference_commit)
     THEN /\ pc' = "o_ff"
          /\ oct' = [oct EXCEPT !.noids = 2]
          /\ hist' = [hist EXCEPT !.ff = @ \cup {CurrentRemote}]
          /\ UNCHANGED <<ret, lock>>
     ELSE /\ pc' = "o_simple"
          /\ oct' = [oct EXCEPT !.noids = Len(common) + 2, !.non_ff_merge = TRUE]
          /\ hist' = [hist EXCEPT !.simple = @ \cup {CurrentRemote}]
          /\ UNCHANGED <<ret, lock>>
  /\ UNCHANGED <<index, disk, wt, driver, args, i, walk, last>>

\* Mutant: can_ff is looked at even after a simple merge.
OctopusHead_reconsiders(common) ==
  /\ driver = "octopus" /\ pc = "o_head"
  /\ IF oct.j > args.n
     THEN pc' = "done" /\ UNCHANGED <<ret, oct, lock, hist>>
     ELSE IF ret # 0
     THEN ret' = 2 /\ pc' = "done" /\ UNCHANGED <<oct, lock, hist>>
     ELSE IF common = <<>>
     THEN Die /\ UNCHANGED <<ret, oct, hist>>
     ELSE IF \E k \in 1..Len(common) : common[k] = CurrentRemote
     THEN oct' = [oct EXCEPT !.j = @ + 1] /\ UNCHANGED <<pc, ret, lock, hist>>
     ELSE IF CanFF(common, oct.references, oct.reference_commit)
     THEN /\ pc' = "o_ff"
          /\ oct' = [oct EXCEPT !.noids = 2]
          /\ hist' = [hist EXCEPT !.ff = @ \cup {CurrentRemote}]
          /\ UNCHANGED <<ret, lock>>
     ELSE /\ pc' = "o_simple"
          /\ oct' = [oct EXCEPT !.noids = Len(common) + 2, !.non_ff_merge = TRUE]
          /\ hist' = [hist EXCEPT !.simple = @ \cup {CurrentRemote}]
          /\ UNCHANGED <<ret, lock>>
  /\ UNCHANGED <<index, disk, wt, driver, args, i, walk, last>>

\* The head of the loop over the remotes: the last-only-conflict check,
\* get_merge_bases_many, "Already up to date", and the choice of a branch.
OctopusHead(common) ==
  /\ driver = "octopus" /\ pc = "o_head"
  /\ IF oct.j > args.n
     THEN pc' = "done" /\ UNCHANGED <<ret, oct, lock, hist>>
     ELSE IF ret # 0
     THEN ret' = 2 /\ pc' = "done" /\ UNCHANGED <<oct, lock, hist>>
     ELSE IF common = <<>>
     THEN Die /\ UNCHANGED <<ret, oct, hist>>
     ELSE IF \E k \in 1..Len(common) : common[k] = CurrentRemote
     THEN oct' = [oct EXCEPT !.j = @ + 1] /\ UNCHANGED <<pc, ret, lock, hist>>
     ELSE IF ~oct.non_ff_merge /\ CanFF(common, oct.references, oct.reference_commit)
     THEN /\ pc' = "o_ff"
          /\ oct' = [oct EXCEPT !.noids = 2]
          /\ hist' = [hist EXCEPT !.ff = @ \cup {CurrentRemote}]
          /\ UNCHANGED <<ret, lock>>
     ELSE /\ pc' = "o_simple"
          /\ oct' = [oct EXCEPT !.noids = Len(common) + 2, !.non_ff_merge = TRUE]
          /\ hist' = [hist EXCEPT !.simple = @ \cup {CurrentRemote}]
          /\ UNCHANGED <<ret, lock>>
  /\ UNCHANGED <<index, disk, wt, driver, args, i, walk, last>>

\* What fast_forward did, as far as the driver's state goes.
AfterFastForward(ff) ==
  /\ index' = ff.index
  /\ wt' = ff.wt
  /\ disk' = ff.disk
  /\ hist' = [hist EXCEPT
                !.unpacked = IF ff.unpacked THEN @ \cup {oct.j} ELSE @,
                !.updated = IF ff.updated THEN @ \cup {oct.j} ELSE @]

\* Mutant: references is not reset after a fast-forward.
OctopusFastForward_keeps_references(fenv) ==
  /\ driver = "octopus" /\ pc = "o_ff"
  /\ LET ff == fast_forward(index, wt, disk, lock, oct.noids, FALSE, fenv)
     IN /\ AfterFastForward(ff)
        /\ IF ff.fatal # ""
           THEN Die /\ UNCHANGED <<ret, oct>>
           ELSE /\ lock' = ff.lock
                /\ ret' = ff.ret
                /\ IF ff.ret # 0
                   THEN pc' = "done" /\ UNCHANGED oct
                   ELSE pc' = "o_fftree" /\ UNCHANGED oct
  /\ UNCHANGED <<driver, args, i, walk, last>>

\* The fast-forward branch: fast_forward(r, oids, 2, 0), whose result is
\* the driver's on failure.
OctopusFastForward(fenv) ==
  /\ driver = "octopus" /\ pc = "o_ff"
  /\ LET ff == fast_forward(index, wt, disk, lock, oct.noids, FALSE, fenv)
     IN /\ AfterFastForward(ff)
        /\ IF ff.fatal # ""
           THEN Die /\ UNCHANGED <<ret, oct>>
           ELSE /\ lock' = ff.lock
                /\ ret' = ff.ret
                /\ IF ff.ret # 0
                   THEN pc' = "done" /\ UNCHANGED oct
                   ELSE pc' = "o_fftree" /\ oct' = [oct EXCEPT !.references = 0]
  /\ UNCHANGED <<driver, args, i, walk, last>>

\* write_tree(r, &reference_tree) of the fast-forward branch.
OctopusFFTree ==
  /\ driver = "octopus" /\ pc = "o_fftree"
  /\ LET t == write_tree(index, disk, lock, oct.reference_tree)
     IN IF t.fatal # ""
        THEN Die /\ UNCHANGED <<disk, oct>>
        ELSE /\ disk' = t.disk
             /\ oct' = NextRemote(oct, t.tree)
             /\ pc' = "o_head"
             /\ UNCHANGED lock
  /\ UNCHANGED <<index, wt, driver, ret, args, i, walk, last, hist>>

\* The simple-merge branch: fast_forward(r, oids, i, 1) over the common
\* commits, reference_tree and the remote. reference_tree may be NULL here,
\* and &reference_tree->object.oid is then read through a null pointer: the
\* process is killed, or oidcpy copies whatever it finds.
OctopusSimple(fenv, ub) ==
  /\ driver = "octopus" /\ pc = "o_simple"
  /\ oct.reference_tree # "NULL" => ub = "none"
  /\ oct.reference_tree = "NULL" => ub \in {"crash", "garbage"}
  /\ LET ff == fast_forward(index, wt, disk, lock, oct.noids, TRUE, fenv)
     IN IF ub = "crash"
        THEN Die /\ UNCHANGED <<index, wt, disk, ret, hist>>
        ELSE /\ AfterFastForward(ff)
             /\ IF ff.fatal # ""
                THEN Die /\ UNCHANGED ret
                ELSE /\ lock' = ff.lock
                     /\ IF ff.ret # 0
                        THEN ret' = 2 /\ pc' = "done"
                        ELSE pc' = "o_tree" /\ UNCHANGED ret
  /\ UNCHANGED <<driver, args, i, walk, last, oct>>

\* write_tree(r, &next): on success the round is over.
OctopusTree ==
  /\ driver = "octopus" /\ pc = "o_tree"
  /\ LET t == write_tree(index, disk, lock, "NULL")
     IN IF t.fatal # ""
        THEN Die /\ UNCHANGED <<disk, oct>>
        ELSE IF t.ret = 0
        THEN /\ disk' = t.disk
             /\ oct' = NextRemote(oct, t.tree)
             /\ pc' = "o_head"
             /\ UNCHANGED lock
        ELSE pc' = "o_relock" /\ UNCHANGED <<disk, oct, lock>>
  /\ UNCHANGED <<index, wt, driver, ret, args, i, walk, last, hist>>

\* "Simple merge did not work, trying automatic merge.", the lock, and the
\* call of merge_all(r->index, 0, 0, merge_one_file_cb, r).
OctopusRelock ==
  /\ driver = "octopus" /\ pc = "o_relock"
  /\ IF lock = "other"
     THEN Die /\ UNCHANGED <<i, walk, hist>>
     ELSE /\ lock' = "self"
          /\ pc' = "walk"
          /\ i' = 0
          /\ walk' = NoWalk
          /\ hist' = [hist EXCEPT !.walk0 = index, !.dispatched = <<>>]
  /\ UNCHANGED <<index, disk, wt, driver, ret, args, last, oct>>

\* ret = !!merge_all(...), write_locked_index.
OctopusCommit(fails) ==
  /\ driver = "octopus" /\ pc = "o_commit"
  /\ LET wr == write_locked_index(index, disk, fails)
     IN disk' = wr.disk /\ lock' = wr.lock
  /\ ret' = IF walk.ret # 0 THEN 1 ELSE 0
  /\ hist' = [hist EXCEPT !.conflictAt = IF walk.ret # 0 /\ @ = 0 THEN oct.j ELSE @,
                          !.leftAt = IF HasUnmerged(index) /\ @ = 0 THEN oct.j ELSE @]
  /\ pc' = "o_tree2"
  /\ UNCHANGED <<index, wt, driver, args, i, walk, last, oct>>

\* The second write_tree(r, &next), and reference_tree = next; what the
\* walk of this remote left goes out of scope.
OctopusTree2 ==
  /\ driver = "octopus" /\ pc = "o_tree2"
  /\ LET t == write_tree(index, disk, lock, "NULL")
     IN IF t.fatal # ""
        THEN Die /\ UNCHANGED <<disk, oct, i, walk, last, hist>>
        ELSE /\ disk' = t.disk
             /\ oct' = NextRemote(oct, t.tree)
             /\ pc' = "o_head"
             /\ i' = 0
             /\ walk' = NoWalk
             /\ last' = NoDispatch
             /\ hist' = [hist EXCEPT !.walk0 = <<>>, !.dispatched = <<>>]
             /\ UNCHANGED lock
  /\ UNCHANGED <<index, wt, driver, ret, args>>

\* ------------------------------------------------------------------- Next
FastForwardEnvs(ist, w, nr, aggressive) ==
  {[fail |-> f, result |-> res] : f \in {"none", "write"}, res \in UnpackResults(ist, w, nr, aggressive)}
  \cup {[fail |-> f, result |-> ist] : f \in {"parse", "unpack"}}

Next ==
  \/ \E nbases \in 0..MaxBases, head_arg \in BOOLEAN, remote \in BOOLEAN :
       ResolveEntry(nbases, head_arg, remote)
  \/ \E fail \in {"parse", "unpack"} : ResolveUnpack(fail, index)
  \/ pc = "r_unpack" /\ \E result \in UnpackResults(index, wt, args.n, TRUE) : ResolveUnpack("none", result)
  \/ \E fails \in BOOLEAN : ResolveWrite(fails)
  \/ ResolveTree
  \/ ResolveRelock
  \/ pc = "walk" /\ \E env \in DriverEnvs : MergeAllStep(env)
  \/ \E fails \in BOOLEAN : ResolveCommit(fails)
  \/ \E nremotes \in 0..MaxRemotes, changes \in BOOLEAN : OctopusEntry(nremotes, changes)
  \/ pc = "o_head" /\ \E common \in CommonLists : OctopusHead(common)
  \/ pc = "o_ff" /\ \E fenv \in FastForwardEnvs(index, wt, oct.noids, FALSE) : OctopusFastForward(fenv)
  \/ OctopusFFTree
  \/ pc = "o_simple" /\ \E fenv \in FastForwardEnvs(index, wt, oct.noids, TRUE),
                              ub \in {"none", "crash", "garbage"} : OctopusSimple(fenv, ub)
  \/ OctopusTree
  \/ OctopusRelock
  \/ \E fails \in BOOLEAN : OctopusCommit(fails)
  \/ OctopusTree2
  \/ OtherLock
  \/ OtherUnlock

Spec == Init /\ [][Next]_vars

\* ------------------------------------------------- merge_all, called alone
\* merge_all(istate, oneshot, 0, cb, data) on an index in which one path has
\* any shape, with either callback.
TreeIndexesFrom(focus) ==
  {s \o t : s \in (IF focus = 1 THEN PathShapes(1, TreeRefs) ELSE NeighbourShapes(1)),
            t \in (IF focus = NumPaths THEN PathShapes(NumPaths, TreeRefs)
                   ELSE NeighbourShapes(NumPaths))}

\* What the callbacks of merge_all can meet: those of merge_one_file_cb, or
\* a child of merge_program_cb that fails.
AllEnvs == DriverEnvs \cup {[DefaultEnv EXCEPT !.exit = 1]}

InitAll ==
  /\ \E focus \in {1, NumPaths} : index \in TreeIndexesFrom(focus)
  /\ wt \in Worktrees
  /\ \E oneshot \in BOOLEAN, cb \in {"merge_one_file_cb", "merge_program_cb"} :
       walk = [NoWalk EXCEPT !.oneshot = oneshot, !.cb = cb]
  /\ disk = index
  /\ lock = "none"
  /\ driver = "merge_all"
  /\ pc = "walk"
  /\ ret = 0
  /\ i = 0
  /\ args = NoArgs
  /\ last = NoDispatch
  /\ oct = NoOct
  /\ hist = [NoHist EXCEPT !.walk0 = index]

\* One iteration of merge_all, or its return.
MergeAll(env) ==
  /\ driver = "merge_all"
  /\ pc = "walk"
  /\ (~(i < cache_nr(index) /\ ce_stage(index[i + 1]) # 0)) => env = DefaultEnv
  /\ IF walk.cb = "merge_program_cb"
     THEN env \in {DefaultEnv, [DefaultEnv EXCEPT !.exit = 1]}
     ELSE env \in DriverEnvs
  /\ \E step \in {merge_all_step(index, wt, walk, i, env)} :
        /\ index' = step.index
        /\ wt' = step.wt
        /\ i' = step.i
        /\ walk' = [walk EXCEPT !.err = step.err, !.ret = step.ret]
        /\ last' = IF step.entry.valid THEN step.entry ELSE last
        /\ hist' = IF step.entry.valid
                   THEN [hist EXCEPT
                           !.dispatched = Append(@, step.entry.path),
                           !.conflicted = IF step.entry.ret = -2
                                          THEN @ \cup {step.entry.path} ELSE @]
                   ELSE hist
        /\ ret' = IF step.done THEN step.ret ELSE ret
        /\ pc' = IF step.entry.valid /\ step.entry.fatal # "" THEN "died"
                 ELSE IF step.done THEN "done" ELSE "walk"
  /\ UNCHANGED <<disk, lock, driver, args, oct>>

NextAll == pc = "walk" /\ \E env \in AllEnvs : MergeAll(env)

SpecAll == InitAll /\ [][NextAll]_vars

\* ---------------------------------------------------------- cmd_merge_resolve
\* argv[1..]: the separator, the help flag, the id of the empty tree, ids of
\* commits, and an id that is not a commit.
MaxArgs == 5

ArgWords == {"--", "-h", "empty_tree", "c1", "c2", "blob"}

ArgVectors == UNION {[1..n -> ArgWords] : n \in 0..MaxArgs}

\* The locals of cmd_merge_resolve: head = "" is NULL, bases and remote are
\* the commit lists.
CmdLocals(argv) ==
  [argv |-> argv, sep_seen |-> FALSE, head |-> "", bases |-> <<>>, remote |-> <<>>,
   is_baseless |-> TRUE]

InitCmd ==
  /\ \E argv \in ArgVectors : args = CmdLocals(argv)
  /\ index = <<>>
  /\ disk = index
  /\ wt = [p \in Paths |-> NoFile]
  /\ lock = "none"
  /\ driver = "cmd_merge_resolve"
  /\ pc = "c_start"
  /\ ret = 0
  /\ i = 1
  /\ walk = NoWalk
  /\ last = NoDispatch
  /\ oct = NoOct
  /\ hist = NoHist

\* usage() exits with 129, die() with 128.
CmdExit(status) == pc' = "exit" /\ ret' = status

\* argc < 5, setup_work_tree, repo_read_index.
CmdStart(index_ok) ==
  /\ driver = "cmd_merge_resolve" /\ pc = "c_start"
  /\ IF Len(args.argv) + 1 < 5 THEN CmdExit(129)
     ELSE IF ~index_ok THEN CmdExit(128)
     ELSE pc' = "c_loop" /\ UNCHANGED ret
  /\ UNCHANGED <<index, disk, wt, lock, driver, args, i, walk, last, oct, hist>>

\* One iteration of the loop over argv[1..argc - 1].
CmdArg ==
  /\ driver = "cmd_merge_resolve" /\ pc = "c_loop"
  /\ i <= Len(args.argv)
  /\ LET arg == args.argv[i]
         baseless == args.is_baseless /\ args.sep_seen
         next == /\ pc' = "c_loop" /\ i' = i + 1 /\ UNCHANGED ret
     IN IF arg = "--"
        THEN next /\ args' = [args EXCEPT !.sep_seen = TRUE]
        ELSE IF arg = "-h"
        THEN CmdExit(129) /\ UNCHANGED <<args, i>>
        ELSE IF args.sep_seen /\ args.head = ""
        THEN next /\ args' = [args EXCEPT !.head = arg]
        ELSE IF args.remote # <<>>
        THEN CmdExit(2) /\ UNCHANGED <<args, i>>
        ELSE IF arg = "empty_tree"
        THEN next /\ args' = [args EXCEPT !.is_baseless = baseless]
        ELSE IF arg = "blob"
        THEN CmdExit(128) /\ i' = i /\ args' = [args EXCEPT !.is_baseless = baseless]
        ELSE IF args.sep_seen
        THEN next /\ args' = [args EXCEPT !.is_baseless = baseless, !.remote = Append(@, arg)]
        ELSE next /\ args' = [args EXCEPT !.is_baseless = baseless, !.bases = Append(@, arg)]
  /\ UNCHANGED <<index, disk, wt, lock, driver, walk, last, oct, hist>>

\* After the loop: a baseless merge is given up, else
\* merge_strategies_resolve(the_repository, bases, head, remote) is called.
CmdCall ==
  /\ driver = "cmd_merge_resolve" /\ pc = "c_loop"
  /\ i > Len(args.argv)
  /\ IF args.is_baseless THEN CmdExit(2)
     ELSE pc' = "called" /\ UNCHANGED ret
  /\ UNCHANGED <<index, disk, wt, lock, driver, args, i, walk, last, oct, hist>>

NextCmd ==
  \/ \E index_ok \in BOOLEAN : CmdStart(index_ok)
  \/ CmdArg
  \/ CmdCall

SpecCmd == InitCmd /\ [][NextCmd]_vars

\* -------------------------------------------------------------------- strmap
\* Keys are strings, here numbers compared as strcmp compares; values are
\* pointers, 0 being NULL.
NumKeys == 3
NumValues == 2

MapKeys == 1..NumKeys
MapValues == 0..NumValues

strcmp(a, b) == IF a < b THEN -1 ELSE IF a > b THEN 1 ELSE 0

\* A hash with collisions.
strhash(str) == str % 2

cmp_strmap_entry(e1, e2) == strcmp(e1.key, e2.key)

\* The hashmap is the sequence of its entries; an entry is found by its
\* hash and a comparison that returns 0.
hashmap_get_entry(map, entry) ==
  LET hits == {k \in 1..Len(map) :
                 map[k].hash = entry.hash /\ cmp_strmap_entry(map[k], entry) = 0}
  IN IF hits = {} THEN 0 ELSE CHOOSE k \in hits : \A l \in hits : k <= l

hashmap_add(map, entry) == <<entry>> \o map

hashmap_remove_entry(map, entry) ==
  LET k == hashmap_get_entry(map, entry)
  IN IF k = 0 THEN map ELSE SubSeq(map, 1, k - 1) \o SubSeq(map, k + 1, Len(map))

hashmap_get_size(map) == Len(map)

\* Position of the entry of str in the map, 0 for NULL.
find_strmap_entry(map, str) ==
  hashmap_get_entry(map, [hash |-> strhash(str), key |-> str, value |-> 0])

\* Mutant: an entry is added whether or not the key is in the map.
strmap_put_always_adds(map, str, data) ==
  [old |-> 0, map |-> hashmap_add(map, [hash |-> strhash(str), key |-> str, value |-> data])]

strmap_put(map, str, data) ==
  LET entry == find_strmap_entry(map, str)
  IN IF entry # 0
     THEN [old |-> map[entry].value, map |-> [map EXCEPT ![entry].value = data]]
     ELSE [old |-> 0,
           map |-> hashmap_add(map, [hash |-> strhash(str), key |-> str, value |-> data])]

strmap_get(map, str) ==
  LET entry == find_strmap_entry(map, str)
  IN IF entry # 0 THEN map[entry].value ELSE 0

strmap_contains(map, str) == find_strmap_entry(map, str) # 0

strmap_remove(map, str, free_util) ==
  hashmap_remove_entry(map, [hash |-> strhash(str), key |-> str, value |-> 0])

\* strmap_init, then any calls of put, get, contains, remove and clear.
\* args.map is the map; last is the latest call: its arguments, the map
\* before it and what it returned.
MapCall(op, str, data, result) ==
  [valid |-> TRUE, op |-> op, key |-> str, value |-> data, result |-> result,
   preMap |-> args.map]

InitMap ==
  /\ args = [map |-> <<>>, strdup_strings |-> TRUE, pool |-> "NULL"]
  /\ index = <<>>
  /\ disk = <<>>
  /\ wt = [p \in Paths |-> NoFile]
  /\ lock = "none"
  /\ driver = "strmap"
  /\ pc = "m_idle"
  /\ ret = 0
  /\ i = 0
  /\ walk = NoWalk
  /\ last = NoDispatch
  /\ oct = NoOct
  /\ hist = NoHist

MapFrame == UNCHANGED <<index, disk, wt, lock, driver, pc, ret, i, walk, oct, hist>>

StrmapPut(str, data) ==
  /\ driver = "strmap"
  /\ \E r \in {strmap_put(args.map, str, data)} :
        /\ args' = [args EXCEPT !.map = r.map]
        /\ last' = MapCall("put", str, data, r.old)
  /\ MapFrame

StrmapGet(str) ==
  /\ driver = "strmap"
  /\ last' = MapCall("get", str, 0, strmap_get(args.map, str))
  /\ UNCHANGED args
  /\ MapFrame

StrmapContains(str) ==
  /\ driver = "strmap"
  /\ last' = MapCall("contains", str, 0, IF strmap_contains(args.map, str) THEN 1 ELSE 0)
  /\ UNCHANGED args
  /\ MapFrame

StrmapRemove(str, free_util) ==
  /\ driver = "strmap"
  /\ args' = [args EXCEPT !.map = strmap_remove(@, str, free_util)]
  /\ last' = MapCall("remove", str, 0, 0)
  /\ MapFrame

StrmapClear(free_util) ==
  /\ driver = "strmap"
  /\ args' = [args EXCEPT !.map = <<>>]
  /\ last' = MapCall("clear", 0, 0, 0)
  /\ MapFrame

NextMap ==
  \/ \E str \in MapKeys, data \in MapValues : StrmapPut(str, data)
  \/ \E str \in MapKeys : StrmapGet(str)
  \/ \E str \in MapKeys : StrmapContains(str)
  \/ \E str \in MapKeys, free_util \in BOOLEAN : StrmapRemove(str, free_util)
  \/ \E free_util \in BOOLEAN : StrmapClear(free_util)

SpecMap == InitMap /\ [][NextMap]_vars

\* ================================================================ claims

\* ------------------------------------------------------ claims on the drivers
DriverReturned == driver \in {"resolve", "octopus"} /\ pc = "done"

\* A fatal outcome of a driver: it died, or it returned neither 0 nor 1.
DriverFatal ==
  /\ driver \in {"resolve", "octopus"}
  /\ pc = "died" \/ (pc = "done" /\ ret \notin {0, 1})

\* C1: whenever merge_strategies_resolve returns 0, every path of the index
\* has exactly one entry and that entry is at stage 0.
C1_ResolveSuccessAllMerged ==
  (driver = "resolve" /\ pc = "done" /\ ret = 0) => AllMerged(index)

\* C2: in merge_strategies_octopus with N remotes, once the automatic merge
\* of the k-th remote, k < N, has left a conflict (unmerged entries) in the
\* index, neither unpack-trees nor the path merger runs for a remote after
\* the k-th, and a return of the driver is a return of 2.
C2_LastOnlyConflict ==
  (driver = "octopus" /\ hist.leftAt # 0 /\ hist.leftAt < args.n) =>
    /\ \A k \in hist.unpacked \cup hist.merged : k <= hist.leftAt
    /\ pc = "done" => ret = 2

\* C3: every value returned by merge_strategies_resolve and by
\* merge_strategies_octopus is one of 0, 1, 2.
C3_ReturnsZeroOneTwo == DriverReturned => ret \in {0, 1, 2}

\* C4: whenever a driver returns, the index lock it acquired is no longer
\* held.
C4_LockReleasedOnReturn == DriverReturned => lock # "self"

\* C5: on any fatal error of a driver the index file is what it was at the
\* driver's entry.
C5_FatalKeepsIndexFile == DriverFatal => disk = hist.disk0

\* C5, amended: a fatal error of a driver before any unpack-trees of its
\* run has succeeded (resolve returning 2, a die at the first lock
\* acquisition, the octopus preflight, a failure in the first remote
\* processed) leaves the index file what it was at the driver's entry.
C5_FatalBeforeUnpackKeepsIndexFile ==
  (DriverFatal /\ hist.updated = {}) => disk = hist.disk0

C5_Witness ==
  /\ driver = "resolve" /\ pc = "done" /\ ret = 2
  /\ hist.unpacked = {1} /\ hist.updated = {}
  /\ disk = hist.disk0 /\ disk # <<>>

\* C6: after a driver returns 1, every path whose merge callback returned
\* non-zero has at least one entry at stage 1, 2 or 3 and no stage-0 entry.
C6_ConflictedPathsStayUnmerged ==
  (DriverReturned /\ ret = 1) =>
    \A p \in hist.conflicted :
      /\ StagesOf(index, p) \cap {1, 2, 3} # {}
      /\ 0 \notin StagesOf(index, p)

\* C19: when the index has local changes relative to the head tree,
\* merge_strategies_octopus returns 2 at once: it does not take the index
\* lock, neither unpack_trees nor the path merger runs, and the index in
\* memory and the index file are those at entry.
C19_PreflightReturnsTwo ==
  (driver = "octopus" /\ args.changes) =>
    /\ pc = "done"
    /\ ret = 2
    /\ lock # "self"
    /\ hist.unpacked = {} /\ hist.updated = {} /\ hist.merged = {}
    /\ ~last.valid
    /\ index = hist.disk0
    /\ disk = hist.disk0

C19_Witness ==
  /\ driver = "octopus" /\ args.changes
  /\ pc = "done" /\ ret = 2
  /\ args.n = MaxRemotes
  /\ lock = "none"
  /\ index # <<>>

\* C20: in the loop of merge_strategies_octopus, once a remote went through
\* the simple-merge branch (non_ff_merge set) the flag stays set and no
\* later remote goes through the fast-forward branch.
C20_NoFastForwardAfterSimple ==
  (driver = "octopus" /\ hist.simple # {}) =>
    /\ oct.non_ff_merge
    /\ pc \notin {"o_ff", "o_fftree"}
    /\ \A a \in hist.simple, b \in hist.ff : b < a

C20_Witness ==
  /\ driver = "octopus" /\ pc = "done" /\ ret = 0
  /\ hist.simple = 1..MaxRemotes
  /\ hist.ff = {}
  /\ oct.references = MaxRemotes + 1

\* The only remote of an octopus was sent to the fast-forward branch: its
\* merge bases begin with head.
OnlyRemoteFastForwards == driver = "octopus" /\ args.n = 1 /\ hist.ff = {1}

LockAcquiredOnce ==
  /\ Running
  /\ driver = "resolve" \/ (driver = "octopus" /\ hist.unpacked # {})

\* C22 (as claimed): from its first lock acquisition to its return a driver
\* holds the index lock, so that no other process can acquire it.
C22_LockHeldThroughout == LockAcquiredOnce => lock = "self"

\* The phases in which a driver holds the lock, and those in which it does
\* not.
LockedPhase ==
  \/ driver = "resolve" /\ pc \in {"r_unpack", "r_write", "walk", "r_commit"}
  \/ driver = "octopus" /\ pc \in {"walk", "o_commit"}

UnlockedPhase ==
  \/ driver = "resolve" /\ pc \in {"r_tree", "r_relock"}
  \/ driver = "octopus" /\ pc \in {"o_head", "o_ff", "o_simple", "o_fftree", "o_tree",
                                     "o_relock", "o_tree2"}

\* C22 (amended): a driver holds the index lock phase by phase -- resolve
\* from its entry to the index write that follows unpack_trees and again
\* from its second acquisition to its last index write, octopus inside
\* fast_forward and around merge_all of each remote -- and in between the
\* lock is not held by the driver; no other process acquires the lock while
\* the driver holds it.
C22_LockHeldPhaseByPhase ==
  /\ [](LockedPhase => lock = "self")
  /\ [](UnlockedPhase => lock # "self")
  /\ [][lock = "self" => lock' # "other"]_vars

C22_Witness ==
  /\ driver = "resolve" /\ pc = "r_relock"
  /\ hist.unpacked = {1}
  /\ HasUnmerged(index)
  /\ lock = "other"

\* C23 (as claimed): within one invocation of a driver no unpack_trees call
\* comes after the first dispatch to the path merger: every round that
\* unpacked precedes, or is, every round that merged.
C23_NoUnpackAfterMerge ==
  driver \in {"resolve", "octopus"} =>
    \A m \in hist.merged, u \in hist.unpacked : u <= m

\* C23 (amended): within resolve, and within the round of each remote of
\* octopus, unpack_trees has succeeded before the path merger is first
\* dispatched and is not called again in that round; resolve has one round.
C23_UnpackBeforeMergePerRound ==
  driver \in {"resolve", "octopus"} =>
    /\ hist.merged \subseteq hist.updated
    /\ driver = "resolve" => (hist.unpacked \subseteq {1} /\ hist.merged \subseteq {1})
    /\ pc = "r_unpack" => (hist.unpacked = {} /\ hist.merged = {})
    /\ pc \in {"o_ff", "o_simple"} => CurrentRemote \notin (hist.unpacked \cup hist.merged)
    /\ pc = "walk" => (IF driver = "octopus" THEN CurrentRemote ELSE 1) \in hist.updated

C23_Witness ==
  /\ driver = "octopus"
  /\ hist.merged = {1}
  /\ hist.unpacked = {1, 2}
  /\ pc = "walk"

\* can_ff as the specification states it.
SpecCanFF(common, references, reference_commit) ==
  /\ Len(common) >= references
  /\ \A k \in 1..references : common[k] = reference_commit[k]

\* The head of an iteration of the octopus loop that gets as far as the
\* fast-forward test, non_ff_merge being false.
AtFastForwardTest ==
  /\ driver = "octopus" /\ pc = "o_head"
  /\ oct.j <= args.n /\ ret = 0
  /\ ~oct.non_ff_merge

\* C27: wherever the octopus loop computes can_ff (non_ff_merge false), the
\* pairwise comparison of the code agrees with the specified predicate for
\* every list of merge bases get_merge_bases_many can return there.
C27_CanFFAgrees ==
  AtFastForwardTest =>
    \A common \in CommonLists \ {<<>>} :
      CanFF(common, oct.references, oct.reference_commit)
        <=> SpecCanFF(common, oct.references, oct.reference_commit)

C27_Witness ==
  /\ AtFastForwardTest
  /\ oct.j = 2 /\ hist.ff = {1}
  /\ oct.reference_commit = <<1>>
  /\ CanFF(<<1, 0>>, oct.references, oct.reference_commit)
  /\ ~CanFF(<<0, 1>>, oct.references, oct.reference_commit)

\* An iteration of the octopus loop that ends at "Already up to date": the
\* loop goes on to the next remote without entering either branch.
SkipsRemote ==
  /\ driver = "octopus" /\ pc = "o_head" /\ pc' = "o_head"
  /\ oct'.j = oct.j + 1

\* C28: an iteration that finds the remote among the merge bases changes
\* nothing but the position in the list of remotes: index, index file,
\* reference_tree, reference_commit with its count, non_ff_merge and ret
\* are as before, and the remote is not among the reference commits.
C28_SkipChangesNothing ==
  [][SkipsRemote =>
       /\ index' = index /\ disk' = disk /\ wt' = wt /\ lock' = lock
       /\ ret' = ret
       /\ oct'.reference_tree = oct.reference_tree
       /\ oct'.reference_commit = oct.reference_commit
       /\ oct'.references = oct.references
       /\ oct'.non_ff_merge = oct.non_ff_merge
       /\ \A k \in 1..oct'.references : oct'.reference_commit[k] # oct.j]_vars

\* Remote 1 was fast-forwarded to and remote 2 was skipped.
C28_Witness ==
  /\ driver = "octopus" /\ pc = "o_head" /\ ret = 0
  /\ oct.j = 3 /\ hist.ff = {1} /\ hist.simple = {}
  /\ oct.references = 1 /\ oct.reference_commit = <<1>>

\* C29: in octopus, a round that ends with reference_tree unset (the second
\* write_tree failed) and with a remote still to merge is stopped at the head
\* of the next iteration by ret, and the simple-merge branch, which reads
\* reference_tree, is never entered while reference_tree is unset.
C29_UnsetTreeNeverRead ==
  (driver = "octopus" /\ oct.reference_tree = "NULL") =>
     /\ (pc = "o_head" /\ oct.j <= args.n) => ret # 0
     /\ pc # "o_simple"

\* unpack_trees has been called by resolve with the trees args.t.
ResolveUnpacked == driver = "resolve" /\ hist.unpacked # {}

\* C30: the trees resolve hands to unpack_trees are the bases, then head if
\* given, then the remote if given; the merge function is one-way for one
\* tree, two-way for two and three-way for three or more; and with three or
\* more trees head_idx is the position of the head tree whenever there is
\* one, whether or not there is a remote.
C30_TreesAndHeadIndex ==
  ResolveUnpacked =>
    /\ Len(args.t) = args.bases + (IF args.head_arg THEN 1 ELSE 0) + (IF args.remote THEN 1 ELSE 0)
    /\ \A k \in 1..args.bases : args.t[k] = "base"
    /\ args.head_arg => args.t[args.bases + 1] = "head"
    /\ args.remote => args.t[Len(args.t)] = "remote"
    /\ args.opts.fn = (IF Len(args.t) = 1 THEN "oneway_merge"
                       ELSE IF Len(args.t) = 2 THEN "twoway_merge"
                       ELSE "threeway_merge")
    /\ (Len(args.t) >= 3 /\ args.head_arg) => args.t[args.opts.head_idx] = "head"

\* --------------------------------------------- claims on cmd_merge_resolve
\* The command line as its usage line reads it: the arguments after the
\* first "--" are head and then the remotes.
SepAt(argv) ==
  IF \E k \in 1..Len(argv) : argv[k] = "--"
  THEN CHOOSE k \in 1..Len(argv) : argv[k] = "--" /\ \A l \in 1..(k - 1) : argv[l] # "--"
  ELSE 0

AfterSep(argv) ==
  SelectSeq(SubSeq(argv, SepAt(argv) + 1, Len(argv)), LAMBDA a : a # "--")

RemoteArgs(argv) ==
  IF SepAt(argv) = 0 \/ AfterSep(argv) = <<>> THEN <<>> ELSE Tail(AfterSep(argv))

\* cmd_merge_resolve has ended on a command line long enough not to be a
\* usage error, with no -h and only ids of commits or of the empty tree.
CmdEnded ==
  /\ driver = "cmd_merge_resolve" /\ pc \in {"exit", "called"}
  /\ Len(args.argv) >= 4
  /\ \A k \in 1..Len(args.argv) : args.argv[k] \notin {"-h", "blob"}
  /\ ~(pc = "exit" /\ ret = 128)

\* C25: merge-resolve exits with 2, without calling merge_strategies_resolve,
\* when the command line has no "--", when it has more than one remote
\* argument after head (the id of the empty tree among them or not), and
\* when no argument comes before "--".
C25_SeparatorAndOneRemote ==
  (/\ CmdEnded
   /\ \/ SepAt(args.argv) = 0
      \/ Len(RemoteArgs(args.argv)) > 1
      \/ SepAt(args.argv) = 1) =>
    (pc = "exit" /\ ret = 2)

\* Two remote arguments, the first the id of the empty tree: the call is made.
C25_SkippedRemoteReached ==
  /\ driver = "cmd_merge_resolve" /\ pc = "called"
  /\ args.argv = <<"c1", "--", "c1", "empty_tree", "c2">>
  /\ args.remote = <<"c2">>

\* ---------------------------------------------------------- claims on strmap
\* C26: strmap_put on a key of the map overwrites the value, returns the
\* previous one and keeps the number of entries; on a new key it adds one
\* entry and returns NULL; afterwards strmap_get gives the value put and
\* strmap_contains holds, a NULL value included; strmap_remove of a key
\* that is not in the map leaves the map as it was.
C26_PutGetContainsRemove ==
  (driver = "strmap" /\ last.valid) =>
    /\ last.op = "put" =>
         /\ IF strmap_contains(last.preMap, last.key)
            THEN /\ last.result = strmap_get(last.preMap, last.key)
                 /\ hashmap_get_size(args.map) = hashmap_get_size(last.preMap)
            ELSE /\ last.result = 0
                 /\ hashmap_get_size(args.map) = hashmap_get_size(last.preMap) + 1
         /\ strmap_get(args.map, last.key) = last.value
         /\ strmap_contains(args.map, last.key)
         /\ \A k \in MapKeys \ {last.key} :
              /\ strmap_contains(args.map, k) <=> strmap_contains(last.preMap, k)
              /\ strmap_get(args.map, k) = strmap_get(last.preMap, k)
    /\ (last.op = "remove" /\ ~strmap_contains(last.preMap, last.key)) =>
         args.map = last.preMap
    /\ last.op = "remove" => ~strmap_contains(args.map, last.key)

C26_Witness ==
  /\ driver = "strmap" /\ last.valid /\ last.op = "put"
  /\ strmap_contains(last.preMap, last.key)
  /\ last.value = 0 /\ last.result # 0
  /\ hashmap_get_size(args.map) = NumKeys
  /\ \E k \in 1..Len(args.map) :
       args.map[k].key # last.key /\ args.map[k].hash = strhash(last.key)

\* ------------------------------------------------------ claims on merge_all
Mentions(errs, line) == \E k \in 1..Len(errs) : errs[k] = line

\* merge_all of a driver has returned without a failed dispatch.
WalkSucceeded ==
  /\ driver \in {"resolve", "octopus"}
  /\ pc \in {"r_commit", "o_commit"}
  /\ walk.ret = 0

\* C15: when merge_all ends with no failed dispatch, every path that had
\* unmerged entries when it started was dispatched exactly once, and the
\* dispatches were made in index order: no entry of a later path is skipped
\* by advancing the cursor.
C15_EveryUnmergedPathDispatchedOnce ==
  WalkSucceeded =>
    /\ \A p \in Paths :
         StagesOf(hist.walk0, p) \cap {1, 2, 3} # {} =>
           Cardinality({k \in 1..Len(hist.dispatched) : hist.dispatched[k] = p}) = 1
    /\ \A k, l \in 1..Len(hist.dispatched) :
         k < l => hist.dispatched[k] < hist.dispatched[l]

\* C17: in the automatic-merge pass of a driver a content conflict on one
\* path does not end the walk: when merge_all has returned after such a
\* conflict, every later path that had unmerged entries when the walk
\* started was dispatched too, and the result of the walk tells the conflict.
C17_ConflictDoesNotAbortWalk ==
  (/\ driver \in {"resolve", "octopus"} /\ pc \in {"r_commit", "o_commit"}
   /\ hist.dispatched # <<>> /\ last.valid /\ last.ret = -2
   /\ Mentions(last.errs, "content conflict")) =>
    /\ walk.ret # 0
    /\ \A p \in Paths :
         (p > last.path /\ StagesOf(hist.walk0, p) \cap {1, 2, 3} # {}) =>
           \E k \in 1..Len(hist.dispatched) : hist.dispatched[k] = p

\* C17 (amended): in the automatic-merge pass of a driver (merge_all with
\* oneshot = 0) the first path whose callback returns non-zero ends the walk:
\* merge_all returns 1 at once, that path is the last one dispatched, and
\* the driver's result for the walk is 1.
C17_ConflictEndsWalk ==
  (/\ driver \in {"resolve", "octopus"}
   /\ hist.dispatched # <<>> /\ last.valid /\ last.ret = -2) =>
    /\ pc # "walk"
    /\ walk.ret = 1
    /\ hist.dispatched[Len(hist.dispatched)] = last.path
    /\ Cardinality({k \in 1..Len(hist.dispatched) : hist.dispatched[k] = last.path}) = 1
    /\ (driver = "resolve" /\ pc = "done") => ret = 1
    /\ (driver = "octopus" /\ pc = "o_tree2") => ret = 1

C17_Witness ==
  /\ driver = "resolve" /\ pc = "done" /\ ret = 1
  /\ hist.dispatched # <<>> /\ last.valid /\ last.ret = -2
  /\ Mentions(last.errs, "content conflict")
  /\ \E p \in Paths :
       /\ p > last.path
       /\ StagesOf(hist.walk0, p) \cap {1, 2, 3} # {}
       /\ \A k \in 1..Len(hist.dispatched) : hist.dispatched[k] # p
       /\ EntriesOf(index, p) = EntriesOf(hist.walk0, p)

\* merge_all, called alone with oneshot set, has returned a count.
OneshotReturned ==
  /\ driver = "merge_all" /\ pc = "done"
  /\ walk.oneshot
  /\ ret >= 0

\* C16: with oneshot set, merge_all returns the number of distinct paths
\* whose callback returned non-zero, and a path whose callback failed was
\* dispatched once.
C16_OneshotCountsPaths ==
  OneshotReturned =>
    /\ ret = Cardinality(hist.conflicted)
    /\ \A p \in hist.conflicted :
         Cardinality({k \in 1..Len(hist.dispatched) : hist.dispatched[k] = p}) = 1

\* ------------------------------------------------- claims on the path merger
\* The last dispatch had only theirs, and a file was in the way.
UntrackedOverwrite ==
  /\ last.valid /\ last.called
  /\ last.oids[0] = NullOid /\ last.oids[1] = NullOid /\ last.oids[2] # NullOid
  /\ last.preWt[last.path] # NoFile

PathReturned == driver = "merge_one_path" /\ pc = "done" /\ last.valid /\ last.found > 0

\* The last dispatch went through the three-way content merge, the merge
\* engine ran (status >= 0) and no I/O step failed.
ContentMerged ==
  /\ PathReturned
  /\ Mentions(last.msgs, "Auto-merging") \/ Mentions(last.msgs, "Added in both, but differently")
  /\ ~Mentions(last.errs, "Failed to execute internal merge")
  /\ ~Mentions(last.errs, "failed to open file")
  /\ ~Mentions(last.errs, "failed to write")
  /\ ~Mentions(last.errs, "unable to index file")
  /\ last.fatal = ""

\* The last dispatch reached do_merge_one_file: ours and theirs present and
\* not an identical addition.
ReachedContentMerge ==
  /\ PathReturned
  /\ last.oids[1] # NullOid /\ last.oids[2] # NullOid
  /\ ~(last.oids[0] = NullOid /\ last.oids[1] = last.oids[2])

\* C13: a path that reaches the content merge with ours.mode or theirs.mode
\* a symlink (else a gitlink) is refused with the symlink (submodule) error
\* before the merge engine runs: no progress line, no change of the working
\* tree, no change of the index.
C13_TypeConflictRefused ==
  (/\ ReachedContentMerge
   /\ {last.modes[1], last.modes[2]} \cap {S_IFLNK, S_IFGITLINK} # {}) =>
    /\ ret = 1
    /\ last.errs =
         <<IF S_IFLNK \in {last.modes[1], last.modes[2]}
           THEN "Not merging symbolic link changes"
           ELSE "Not merging conflicting submodule changes",
           "Merge program failed">>
    /\ last.msgs = <<>>
    /\ index = last.preIndex
    /\ wt = last.preWt

C13_Witness ==
  /\ ReachedContentMerge
  /\ last.modes[1] = REG /\ last.modes[2] = S_IFGITLINK
  /\ last.oids[0] # NullOid
  /\ file_exists(wt, last.path)
  /\ Mentions(last.errs, "Not merging conflicting submodule changes")
  /\ index = last.preIndex

\* C12: in the three-way content merge with no I/O failure the path is
\* re-staged as a single stage-0 entry exactly if the merge status is 0,
\* orig is present and ours.mode = theirs.mode; a status > 0 or an absent
\* orig is a content conflict, different modes are a permission conflict,
\* both leave the index as it was; in every case the working-tree file
\* holds the merged bytes.
C12_RestagedIffClean ==
  ContentMerged =>
    LET path == last.path
        clean == wt[path].content = CleanBlob
        restage == clean /\ last.oids[0] # NullOid /\ last.modes[1] = last.modes[2]
    IN /\ file_exists(wt, path)
       /\ wt[path].content \in {CleanBlob, ConflictBlob}
       /\ restage <=> StagesOf(index, path) = {0}
       /\ restage => (ret = 0 /\ Len(EntriesOf(index, path)) = 1 /\ last.errs = <<>>)
       /\ ~restage => (ret = 1 /\ index = last.preIndex)
       /\ (~clean \/ last.oids[0] = NullOid) <=> Mentions(last.errs, "content conflict")
       /\ last.modes[1] # last.modes[2] <=> Mentions(last.errs, "permission conflict")

C12_Witness ==
  /\ ContentMerged
  /\ ret = 0
  /\ StagesOf(last.preIndex, last.path) = {1, 2, 3}
  /\ StagesOf(index, last.path) = {0}
  /\ wt[last.path].content = CleanBlob

\* C24: whenever the path merger returns 0 for a path it was called on, the
\* index holds no stage-1/2/3 entry of the path afterwards: no entry at all
\* after a deletion (orig present, one side absent), exactly one stage-0
\* entry otherwise; the entries of the other paths are untouched.
C24_SuccessLeavesNoStages ==
  (PathReturned /\ last.called /\ ret = 0) =>
    LET path == last.path
        deletion == last.oids[0] # NullOid /\ (last.oids[1] = NullOid \/ last.oids[2] = NullOid)
    IN /\ StagesOf(index, path) \cap {1, 2, 3} = {}
       /\ IF deletion THEN EntriesOf(index, path) = <<>>
          ELSE Len(EntriesOf(index, path)) = 1 /\ StagesOf(index, path) = {0}
       /\ \A p \in Paths \ {path} : EntriesOf(index, p) = EntriesOf(last.preIndex, p)

C24_Witness ==
  /\ PathReturned /\ last.called /\ ret = 0
  /\ last.oids[0] = NullOid /\ last.oids[1] = NullOid /\ last.oids[2] # NullOid
  /\ StagesOf(last.preIndex, last.path) = {3}
  /\ StagesOf(index, last.path) = {0}
  /\ \E p \in Paths \ {last.path} : StagesOf(index, p) = {2, 3}

\* C18: merge_one_path on a path that has no entry in the index returns -1
\* with the "not in the cache" error, does not call the callback and reads
\* no position of istate->cache[] at or beyond cache_nr.
C18_AbsentPathNotInCache ==
  (/\ driver = "merge_one_path" /\ pc \in {"done", "died"} /\ last.valid
   /\ EntriesOf(last.preIndex, args.path) = <<>>) =>
    /\ pc = "done"
    /\ ret = -1
    /\ Mentions(last.errs, "is not in the cache")
    /\ ~last.called
    /\ ~last.oob
    /\ index = last.preIndex /\ wt = last.preWt

\* C14: after a successful content merge of a path (the path merger returned
\* 0 through do_merge_one_file) the working-tree file exists, holds the clean
\* result and has the mode of the stage-2 (ours) entry the path had.
C14_WorktreeModeIsOurs ==
  (ContentMerged /\ ret = 0) =>
    /\ file_exists(wt, last.path)
    /\ wt[last.path].mode = last.modes[1]
    /\ wt[last.path].content = CleanBlob

C14_Witness ==
  /\ ContentMerged /\ ret = 0
  /\ last.modes[0] = REG /\ last.modes[1] = EXE
  /\ file_exists(last.preWt, last.path) /\ last.preWt[last.path].mode = REG
  /\ wt[last.path].mode = EXE

\* C7 (as claimed): delete-both -- orig present, ours and theirs absent --
\* removes the path from the index and returns 0.
C7_DeleteBothRemoves ==
  (/\ PathReturned
   /\ last.oids[0] # NullOid /\ last.oids[1] = NullOid /\ last.oids[2] = NullOid)
  => (ret = 0 /\ EntriesOf(index, last.path) = <<>>)

\* C8 (as claimed): modify/delete -- orig a, ours b # a, theirs absent --
\* reaches the content merge and yields a content conflict.
C8_ModifyDeleteContentConflict ==
  (/\ PathReturned
   /\ last.oids[0] # NullOid /\ last.oids[1] # NullOid /\ last.oids[2] = NullOid
   /\ last.oids[1] # last.oids[0])
  => Mentions(last.errs, "content conflict")

\* C8 (amended): modify/delete is not taken as a deletion and does not reach
\* the content merge either: it ends in the "Not handling case" error, the
\* call returns non-zero, index and working tree are untouched and no
\* progress line is printed.
C8_ModifyDeleteUnhandled ==
  (/\ PathReturned
   /\ last.oids[0] # NullOid /\ last.oids[1] # NullOid /\ last.oids[2] = NullOid
   /\ last.oids[1] # last.oids[0])
  => /\ ret = 1
     /\ last.errs = <<"Not handling case", "Merge program failed">>
     /\ last.msgs = <<>>
     /\ index = last.preIndex
     /\ wt = last.preWt

C8_Witness ==
  /\ PathReturned
  /\ last.oids[0] # NullOid /\ last.oids[1] # NullOid /\ last.oids[2] = NullOid
  /\ last.oids[1] # last.oids[0]
  /\ last.modes[0] = last.modes[1]
  /\ ret = 1

\* C9 (as claimed): whenever the path merger returns non-zero, the entries of
\* the path are those it had before the call.
C9_FailureKeepsEntries ==
  (PathReturned /\ ret = 1)
  => EntriesOf(index, last.path) = EntriesOf(last.preIndex, last.path)

\* C9 (amended): whenever the path merger returns non-zero for a reason other
\* than a failed checkout, the index is the one before the call; a checkout
\* fails only after the stage-0 entry was added.
C9_FailureKeepsEntriesButCheckout ==
  (PathReturned /\ ret = 1)
  => IF Mentions(last.errs, "cannot checkout file")
     THEN StagesOf(index, last.path) = {0}
     ELSE index = last.preIndex

C9_Witness ==
  /\ PathReturned /\ ret = 1
  /\ Mentions(last.errs, "content conflict")
  /\ Mentions(last.errs, "permission conflict")
  /\ StagesOf(index, last.path) = {1, 2, 3}
  /\ wt # last.preWt

\* C10 (as claimed): orig and theirs present, ours absent, orig.mode =
\* theirs.mode: the path leaves the index and the working tree.
C10_DeletedByUsRemovesBoth ==
  (/\ PathReturned
   /\ last.oids[0] # NullOid /\ last.oids[1] = NullOid /\ last.oids[2] # NullOid
   /\ last.modes[0] = last.modes[2])
  => /\ EntriesOf(index, last.path) = <<>>
     /\ ~file_exists(wt, last.path)

\* C10 (amended): orig and theirs present with the same blob, ours absent,
\* orig.mode = theirs.mode: the path leaves the index, the call returns 0
\* with no progress line, and the working tree is left as it was (a file at
\* the path stays).
C10_DeletedByUsRemovesIndexOnly ==
  (/\ PathReturned
   /\ last.oids[0] # NullOid /\ last.oids[1] = NullOid /\ last.oids[2] # NullOid
   /\ last.oids[0] = last.oids[2]
   /\ last.modes[0] = last.modes[2])
  => /\ ret = 0
     /\ EntriesOf(index, last.path) = <<>>
     /\ last.msgs = <<>>
     /\ wt = last.preWt

C10_Witness ==
  /\ PathReturned
  /\ last.oids[0] # NullOid /\ last.oids[1] = NullOid /\ last.oids[2] # NullOid
  /\ last.oids[0] = last.oids[2]
  /\ last.modes[0] = last.modes[2]
  /\ file_exists(last.preWt, last.path)
  /\ file_exists(wt, last.path)
  /\ EntriesOf(index, last.path) = <<>>

\* The callback ran for the last dispatch and came back, cleanly or with a
\* conflict reported.
CallbackReturned == PathReturned /\ last.called /\ last.fatal = ""

\* C31 as stated, on the clean outcomes: a dispatch that ends without an
\* error line has printed exactly one progress line.
C31_ExactlyOneProgressLine ==
  (CallbackReturned /\ last.errs = <<>>) => Len(last.msgs) = 1

\* C31: a dispatched path prints at most one progress line ("Removing",
\* "Adding", "Auto-merging" or "Added in both, but differently"), whatever
\* row of the decision table it falls in and however the row ends.
C31_AtMostOneProgressLine ==
  CallbackReturned =>
    /\ Len(last.msgs) <= 1
    /\ \A k \in 1..Len(last.msgs) :
         last.msgs[k] \in {"Removing", "Adding", "Auto-merging", "Added in both, but differently"}

\* An addition on both sides with different contents was merged.
C31_Witness ==
  /\ CallbackReturned
  /\ last.oids[0] = NullOid /\ last.oids[1] # NullOid /\ last.oids[2] # NullOid
  /\ last.msgs = <<"Added in both, but differently">>
  /\ Mentions(last.errs, "content conflict")

\* The entries of stage s the path of the last dispatch had in the index
\* when it was dispatched.
DispatchedStage(s) ==
  {k \in 1..Len(last.preIndex) :
     last.preIndex[k].name = last.path /\ last.preIndex[k].stage = s}

\* C32: at every dispatch merge_entry collects between one and three
\* entries, each of stage 1, 2 or 3, and the callback is given in slot s - 1
\* the oid and mode of the path's stage-s entry, or no oid and mode 0 when
\* the path has no entry of that stage.
C32_SlotsHoldThePathsStages ==
  (last.valid /\ last.called) =>
    /\ last.found \in 1..3
    /\ ~last.badslot
    /\ \A s \in 1..3 :
         IF DispatchedStage(s) = {}
         THEN last.oids[s - 1] = NullOid /\ last.modes[s - 1] = NoMode
         ELSE \A k \in DispatchedStage(s) :
                /\ last.oids[s - 1] = last.preIndex[k].oid
                /\ last.modes[s - 1] = last.preIndex[k].mode

\* The reference commit while every remote so far was a fast-forward or
\* already merged: the last remote fast-forwarded to, or head (commit 0).
LastFastForwarded ==
  IF hist.ff = {} THEN 0
  ELSE CHOOSE c \in hist.ff : \A d \in hist.ff : d <= c

\* C33: at the head of an iteration of the octopus loop with non_ff_merge
\* false, reference_commit holds one commit, head or the last remote that
\* was fast-forwarded to; and at all times references is at most one more
\* than the number of remotes the loop is done with, hence at most the
\* count(remotes) + 1 slots that were allocated.
C33_ReferenceCommitsBounded ==
  driver = "octopus" =>
    /\ (pc = "o_head" /\ ~oct.non_ff_merge) =>
         /\ oct.references = 1
         /\ SubSeq(oct.reference_commit, 1, oct.references) = <<LastFastForwarded>>
    /\ oct.references <= (oct.j - 1) + 1
    /\ oct.references <= args.n + 1
    /\ Len(oct.reference_commit) <= args.n + 1

\* Two remotes: the first was fast-forwarded to, the second was merged.
C33_Witness ==
  /\ driver = "octopus" /\ pc = "o_head"
  /\ args.n = 2 /\ oct.j = 3
  /\ hist.ff = {1} /\ hist.simple = {2}
  /\ oct.references = 2 /\ oct.reference_commit = <<1, 2>>

\* C34: merge_all returns on every index. The cursor grows at every
\* iteration that does not return, also across callbacks that add, replace
\* or remove entries of the dispatched path; it never passes the number of
\* entries the index had when merge_all was called, which the index never
\* exceeds; and the iteration that finds the cursor at the end of the index
\* returns. There are never more dispatches than the index had entries at
\* the call.
C34_MergeAllTerminates ==
  /\ [][(driver = "merge_all" /\ pc = "walk" /\ pc' = "walk") => i' > i]_vars
  /\ [][(driver = "merge_all" /\ pc = "walk" /\ ~(i < cache_nr(index))) => pc' # "walk"]_vars
  /\ [](driver = "merge_all" =>
          /\ i <= Len(hist.walk0)
          /\ cache_nr(index) <= Len(hist.walk0)
          /\ Len(hist.dispatched) <= Len(hist.walk0))

\* merge_all has returned after two dispatches, one of which shrank the index.
C34_Witness ==
  /\ driver = "merge_all" /\ pc = "done"
  /\ Len(hist.dispatched) >= 2
  /\ Len(index) < Len(hist.walk0)

====
